---- MODULE Spec2Model ----
(***************************************************************************)
(* Recurring-expense projector (api/expenses.py), payment-plan expander    *)
(* (api/payments.py), currency conversion (utils/currency.py), reports     *)
(* (api/reports.py) and token revocation (api/auth.py) of the back-office  *)
(* API, as state machines over the committed tables, the process-wide      *)
(* state and the request being handled.                                    *)
(***************************************************************************)
EXTENDS Integers, Sequences, FiniteSets, TLC

(* ------------------------------ bounds --------------------------------- *)
\* largest horizon ("months") a generate request carries in the model
MaxMonths == 3
\* the accrued_expenses table accepts generate requests while it holds
\* fewer rows than this
MaxStored == 3
\* largest number of rows that a report reads from a given database
\* content
MaxRows == 3
\* number of tokens the token endpoints issue in a behaviour
MaxTokens == 4
\* number of request threads that call get_exchange_rate side by side
MaxCallers == 2

(* --------------------- calendar (datetime.date) ------------------------ *)
\* a date is <<year, month, day>>
IsLeap(y) == (y % 4 = 0 /\ y % 100 # 0) \/ y % 400 = 0

DaysInMonth(y, m) ==
    IF m = 2 THEN (IF IsLeap(y) THEN 29 ELSE 28)
    ELSE IF m \in {4, 6, 9, 11} THEN 30 ELSE 31

\* date.__lt__
DateLT(a, b) ==
    \/ a[1] < b[1]
    \/ a[1] = b[1] /\ a[2] < b[2]
    \/ a[1] = b[1] /\ a[2] = b[2] /\ a[3] < b[3]

Min(a, b) == IF a <= b THEN a ELSE b

Max(a, b) == IF a >= b THEN a ELSE b

\* date + relativedelta(months=n): month arithmetic, day clamped to the
\* length of the target month
AddMonths(d, n) ==
    LET total == d[1] * 12 + (d[2] - 1) + n
        y == total \div 12
        m == (total % 12) + 1
    IN <<y, m, Min(d[3], DaysInMonth(y, m))>>

\* the first day of the month after d's
FirstOfNextMonth(d) ==
    IF d[2] < 12 THEN <<d[1], d[2] + 1, 1>> ELSE <<d[1] + 1, 1, 1>>

RECURSIVE AddDays(_, _)
\* date + timedelta(days=n), n >= 0: stay in the month when the day
\* fits, otherwise continue from the first day of the next month
AddDays(d, n) ==
    IF d[3] + n <= DaysInMonth(d[1], d[2])
    THEN <<d[1], d[2], d[3] + n>>
    ELSE AddDays(FirstOfNextMonth(d), n - (DaysInMonth(d[1], d[2]) - d[3] + 1))

(* ----------------------- enums of models/expense.py -------------------- *)
ExpenseFrequencyType ==
    {"Diaria", "Semanal", "Quincenal", "Mensual",
     "Bimensual", "Trimestral", "Semestral", "Anual"}

RecurringExpenseStatus == {"Activo", "Pausado"}

Currency == {"COP", "USD"}

NoRow == [id |-> 0]

NoDate == <<0, 0, 0>>

(* ----------------------------- inputs ---------------------------------- *)
\* date.today() of the run
Today == <<2024, 1, 15>>

\* dates a client sends as start_date / next_payment
ObligationDates ==
    {<<2022, 1, 15>>, <<2023, 12, 31>>, <<2024, 1, 1>>, <<2024, 1, 15>>, <<2024, 1, 31>>}

\* (amount, currency) pairs a client sends
AmountInputs == {<<100, "USD">>, <<250000, "COP">>}

\* ids a request may name; the recurring_expenses table holds at most id 1
RequestIds == {1, 2}

\* currency codes the conversion functions are called with
CurrencyCodes == {"COP", "USD"}

\* a rate is the rational num / den; NoRate: the pair is not in the cache
NoRate == [num |-> 0, den |-> 0]

CurrencyPairs == CurrencyCodes \X CurrencyCodes

(* ------------------------------ state ---------------------------------- *)
VARIABLES
    today,               \* date.today()
    recurring_expenses,  \* committed row of table recurring_expenses (or NoRow)
    accrued_expenses,    \* committed rows of table accrued_expenses, in insert order
    pc,                  \* position of GenerateAccruedExpenses.post: "idle" | "loop"
    request,             \* the generate request being handled, or the last one that entered the loop: [id, months]
    i,                   \* loop variable of `for i in range(months)`
    current_date,        \* local current_date
    next_payment_date,   \* local next_payment_date (NoDate is None)
    generated_expenses,  \* local generated_expenses = rows added to db.session
    resp,                \* last response: [op, code, data, stage]
    projects,            \* committed row of table projects with its payment_plan (or NoRow)
    payments,            \* committed rows of table payments, in insert order
    rate_cache,          \* lru_cache of get_exchange_rate: pair -> rate (NoRate: not cached)
    incomes,             \* committed rows of table incomes, in insert order
    expenses,            \* committed rows of table expenses, in insert order
    tokens,              \* the tokens issued so far: [jti, type]
    args,                \* parse_args() of the last report request: [period, currency, months]
    blacklisted_tokens,  \* api/auth.py blacklisted_tokens
    lookups              \* the calls of get_exchange_rate in progress, per request thread

vars == <<today, recurring_expenses, accrued_expenses, pc, request, i,
          current_date, next_payment_date, generated_expenses, resp,
          projects, payments, rate_cache, incomes, expenses, tokens,
          args, blacklisted_tokens, lookups>>

\* the rate cache, the tables of the cash-flow report and the token state
svc_vars == <<rate_cache, incomes, expenses, tokens, args, blacklisted_tokens,
              lookups>>

\* the tables of the payment-plan expander
pay_vars == <<projects, payments>>

\* the tables and handler position of the recurrence projector
exp_vars == <<recurring_expenses, accrued_expenses, pc, request, i,
              current_date, next_payment_date, generated_expenses>>

locals == <<request, i, current_date, next_payment_date, generated_expenses>>

NoRequest == [id |-> 0, months |-> 0]

NoArgs == [period |-> "none", currency |-> "none", months |-> 0]

\* the request threads
Callers == 1..MaxCallers

\* a thread outside get_exchange_rate
NoLookup == [pc |-> "idle", rate_key |-> <<"none", "none">>,
             rate |-> [num |-> 0, den |-> 0], how |-> "none"]

NoResp == [op |-> "none", code |-> 0, data |-> <<>>, stage |-> "none"]

Response(op, code, data, stage) ==
    [op |-> op, code |-> code, data |-> data, stage |-> stage]

RecurringExpense(f, sd, np, amt, st) ==
    [id |-> 1, frequency |-> f, start_date |-> sd, next_payment |-> np,
     amount |-> amt[1], currency |-> amt[2], status |-> st]

Init ==
    /\ today = Today
    /\ recurring_expenses \in
          {NoRow} \cup
          {RecurringExpense(f, sd, sd, amt, st) :
              f \in ExpenseFrequencyType, sd \in ObligationDates,
              amt \in AmountInputs, st \in RecurringExpenseStatus}
    /\ accrued_expenses = <<>>
    /\ pc = "idle"
    /\ request = NoRequest
    /\ i = 0
    /\ current_date = NoDate
    /\ next_payment_date = NoDate
    /\ generated_expenses = <<>>
    /\ resp = NoResp
    /\ projects = NoRow
    /\ payments = <<>>
    /\ rate_cache = [p \in CurrencyPairs |-> NoRate]
    /\ incomes = <<>>
    /\ expenses = <<>>
    /\ tokens = {}
    /\ args = NoArgs
    /\ blacklisted_tokens = {}
    /\ lookups = [t \in Callers |-> NoLookup]

(* ------------------- RecurringExpenseList.post ------------------------- *)
\* RecurringExpenseSchema.validate_start_date
validate_start_date(value) == ~DateLT(value, today)

CreateRecurringExpense(f, sd, amt, st) ==
    /\ pc = "idle"
    /\ recurring_expenses = NoRow
    /\ IF validate_start_date(sd)
       THEN /\ recurring_expenses' = RecurringExpense(f, sd, sd, amt, st)
            /\ resp' = Response("create", 201, <<>>, "none")
       ELSE /\ recurring_expenses' = recurring_expenses
            /\ resp' = Response("create", 400, <<>>, "none")
    /\ UNCHANGED <<today, svc_vars, accrued_expenses, pc, locals, pay_vars>>

(* ------------------- RecurringExpenseDetail.put ------------------------ *)
\* the bodies considered carry one key: status, next_payment or start_date
\* for key, value in data.items(): if hasattr(...): setattr(...)
ApplyUpdate(row, key, value) == [row EXCEPT ![key] = value]

\* commit_ok = FALSE: db.session.commit() raises (the raw JSON value is
\* not accepted by the column type of the backend in use, or the
\* database fails); rollback, 400
UpdateRecurringExpense(id, key, value, commit_ok) ==
    /\ pc = "idle"
    /\ IF recurring_expenses # NoRow /\ recurring_expenses.id = id /\ commit_ok
       THEN /\ recurring_expenses' = ApplyUpdate(recurring_expenses, key, value)
            /\ resp' = Response("update", 200, <<>>, "none")
       ELSE \* also get_or_404 raising inside the try block: except returns 400
            /\ recurring_expenses' = recurring_expenses
            /\ resp' = Response("update", 400, <<>>, "none")
    /\ UNCHANGED <<today, svc_vars, accrued_expenses, pc, locals, pay_vars>>

(* ------------------- GenerateAccruedExpenses.post ---------------------- *)
\* frequency_map with the biweekly step taken as 14 days
frequency_map_biweekly14(f) ==
    CASE f = "Diaria"     -> [days |-> 1]
      [] f = "Semanal"    -> [days |-> 7]
      [] f = "Quincenal"  -> [days |-> 14]
      [] f = "Mensual"    -> [months |-> 1]
      [] f = "Bimensual"  -> [months |-> 2]
      [] f = "Trimestral" -> [months |-> 3]
      [] f = "Semestral"  -> [months |-> 6]
      [] f = "Anual"      -> [months |-> 12]
      [] OTHER            -> [months |-> 1]

frequency_map(f) ==
    CASE f = "Diaria"     -> [days |-> 1]
      [] f = "Semanal"    -> [days |-> 7]
      [] f = "Quincenal"  -> [days |-> 15]
      [] f = "Mensual"    -> [months |-> 1]
      [] f = "Bimensual"  -> [months |-> 2]
      [] f = "Trimestral" -> [months |-> 3]
      [] f = "Semestral"  -> [months |-> 6]
      [] f = "Anual"      -> [months |-> 12]
      [] OTHER            -> [months |-> 1]

\* the move to the next period (lines 438-441 and 466-469)
Advance(d, freq) ==
    IF "days" \in DOMAIN freq THEN AddDays(d, freq.days)
    ELSE AddMonths(d, freq.months)

AccruedExpense(row, due) ==
    [due_date |-> due, amount |-> row.amount, currency |-> row.currency,
     status |-> "pendiente", is_recurring |-> TRUE, recurring_id |-> row.id]

\* GenerateBegin without the status check of lines 406-408
GenerateBegin_no_status_check(id, months) ==
    /\ pc = "idle"
    /\ Len(accrued_expenses) < MaxStored
    /\ IF recurring_expenses = NoRow \/ recurring_expenses.id # id
       THEN /\ resp' = Response("generate", 400, <<>>, "lookup")
            /\ UNCHANGED <<pc, locals>>
       ELSE /\ pc' = "loop"
            /\ request' = [id |-> id, months |-> months]
            /\ i' = 0
            /\ current_date' = recurring_expenses.next_payment
            /\ next_payment_date' = NoDate
            /\ generated_expenses' = <<>>
            /\ resp' = NoResp
    /\ UNCHANGED <<today, svc_vars, recurring_expenses, accrued_expenses, pay_vars>>

\* lines 401-433: lookup, status check, argument parsing, loop set-up
GenerateBegin(id, months) ==
    /\ pc = "idle"
    /\ Len(accrued_expenses) < MaxStored
    /\ IF recurring_expenses = NoRow \/ recurring_expenses.id # id
       THEN \* get_or_404 raises NotFound inside the try block; the
            \* `except Exception` branch rolls back and returns 400
            /\ resp' = Response("generate", 400, <<>>, "lookup")
            /\ UNCHANGED <<pc, locals>>
       ELSE IF recurring_expenses.status # "Activo"
       THEN /\ resp' = Response("generate", 400, <<>>, "inactive")
            /\ UNCHANGED <<pc, locals>>
       ELSE /\ pc' = "loop"
            /\ request' = [id |-> id, months |-> months]
            /\ i' = 0
            /\ current_date' = recurring_expenses.next_payment
            /\ next_payment_date' = NoDate
            /\ generated_expenses' = <<>>
            /\ resp' = NoResp
    /\ UNCHANGED <<today, svc_vars, recurring_expenses, accrued_expenses, pay_vars>>

\* GenerateStep without the test that skips a past date
GenerateStep_no_skip ==
    /\ pc = "loop"
    /\ i < request.months
    /\ LET freq == frequency_map(recurring_expenses.frequency) IN
       /\ generated_expenses' =
             Append(generated_expenses,
                    AccruedExpense(recurring_expenses, current_date))
       /\ next_payment_date' =
             IF i = 0 THEN current_date ELSE next_payment_date
       /\ current_date' = Advance(current_date, freq)
    /\ i' = i + 1
    /\ UNCHANGED <<today, svc_vars, recurring_expenses, accrued_expenses, pc, request, resp, pay_vars>>

\* GenerateStep with the cursor following every created instance
GenerateStep_cursor_follows ==
    /\ pc = "loop"
    /\ i < request.months
    /\ LET freq == frequency_map(recurring_expenses.frequency) IN
       IF DateLT(current_date, today)
       THEN /\ current_date' = Advance(current_date, freq)
            /\ UNCHANGED <<generated_expenses, next_payment_date>>
       ELSE /\ generated_expenses' =
                  Append(generated_expenses,
                         AccruedExpense(recurring_expenses, current_date))
            /\ next_payment_date' = Advance(current_date, freq)
            /\ current_date' = Advance(current_date, freq)
    /\ i' = i + 1
    /\ UNCHANGED <<today, svc_vars, recurring_expenses, accrued_expenses, pc, request, resp, pay_vars>>

\* one iteration of `for i in range(months)` (lines 435-469)
GenerateStep ==
    /\ pc = "loop"
    /\ i < request.months
    /\ LET freq == frequency_map(recurring_expenses.frequency) IN
       IF DateLT(current_date, today)
       THEN /\ current_date' = Advance(current_date, freq)
            /\ UNCHANGED <<generated_expenses, next_payment_date>>
       ELSE /\ generated_expenses' =
                  Append(generated_expenses,
                         AccruedExpense(recurring_expenses, current_date))
            /\ next_payment_date' =
                  IF i = 0 THEN current_date ELSE next_payment_date
            /\ current_date' = Advance(current_date, freq)
    /\ i' = i + 1
    /\ UNCHANGED <<today, svc_vars, recurring_expenses, accrued_expenses, pc, request, resp, pay_vars>>

\* lines 471-480: cursor assignment, commit, response; serialising the
\* response after the commit may itself raise (dump_ok = FALSE), which
\* the except branch answers with 400 after the commit took effect
GenerateCommit(dump_ok) ==
    /\ pc = "loop"
    /\ i = request.months
    /\ recurring_expenses' =
          IF next_payment_date # NoDate
          THEN [recurring_expenses EXCEPT !.next_payment = next_payment_date]
          ELSE recurring_expenses
    /\ accrued_expenses' = accrued_expenses \o generated_expenses
    /\ resp' = IF dump_ok
               THEN Response("generate", 201, generated_expenses, "none")
               ELSE Response("generate", 400, <<>>, "dump")
    /\ pc' = "idle"
    /\ i' = 0
    /\ current_date' = NoDate
    /\ next_payment_date' = NoDate
    /\ generated_expenses' = <<>>
    /\ UNCHANGED <<today, svc_vars, request, pay_vars>>

\* GenerateFail without db.session.rollback(): the rows added to the
\* session so far reach the table
GenerateFail_no_rollback ==
    /\ pc = "loop"
    /\ resp' = Response("generate", 400, <<>>,
                        IF i < request.months THEN "build" ELSE "commit")
    /\ pc' = "idle"
    /\ i' = 0
    /\ current_date' = NoDate
    /\ next_payment_date' = NoDate
    /\ generated_expenses' = <<>>
    /\ accrued_expenses' = accrued_expenses \o generated_expenses
    /\ UNCHANGED <<today, svc_vars, recurring_expenses, request, pay_vars>>

\* lines 482-485: an exception while building an instance or while
\* committing; db.session.rollback() discards everything added
GenerateFail ==
    /\ pc = "loop"
    /\ resp' = Response("generate", 400, <<>>,
                        IF i < request.months THEN "build" ELSE "commit")
    /\ pc' = "idle"
    /\ i' = 0
    /\ current_date' = NoDate
    /\ next_payment_date' = NoDate
    /\ generated_expenses' = <<>>
    /\ UNCHANGED <<today, svc_vars, recurring_expenses, accrued_expenses, request, pay_vars>>

(* ----------------------- enums of models/project.py -------------------- *)
PaymentPlanType ==
    {"Fee unico", "Fee por cuotas", "Suscripcion periodica", "Mixto"}

\* a payment plan; None is 0 in a numeric field and "None" in an enum field
\* (the code tests these fields for truth only, where None and 0 agree);
\* money is in cents
PaymentPlan(type, impl, rec, grace, disc) ==
    [type |-> type,
     implementation_fee_total |-> impl[1],
     implementation_fee_currency |-> impl[2],
     implementation_fee_installments |-> impl[3],
     recurring_fee_amount |-> rec[1],
     recurring_fee_currency |-> rec[2],
     recurring_fee_frequency |-> rec[3],
     recurring_fee_day_of_charge |-> rec[4],
     recurring_fee_grace_periods |-> grace,
     recurring_fee_discount_periods |-> disc[1],
     recurring_fee_discount_percentage |-> disc[2]]

NoPlan == [type |-> "None"]

\* payment_plan bodies a client sends with a project
PlanBodies ==
    {PaymentPlan(type, impl, rec, grace, disc) :
        type \in PaymentPlanType,
        impl \in {<<0, "None", 0>>, <<120000, "USD", 1>>,
                  <<120000, "USD", 3>>, <<100000, "COP", 3>>},
        rec \in {<<0, "None", "None", 0>>, <<50000, "USD", "Mensual", 15>>,
                 <<50000, "USD", "Semanal", 31>>, <<50000, "USD", "Bimensual", 15>>},
        grace \in {0, 1},
        disc \in {<<0, 0>>, <<2, 10>>}}

\* project start dates a client sends
ProjectDates == {<<2024, 1, 15>>, <<2024, 1, 31>>}

(* --------------- PaymentPlanSchema.validate_plan_fields ---------------- *)
\* TRUE when no ValidationError is raised
validate_plan_fields(data) ==
    /\ data.type \in {"Fee unico", "Fee por cuotas", "Mixto"} =>
          /\ data.implementation_fee_total # 0
          /\ data.implementation_fee_currency # "None"
    /\ data.type \in {"Fee por cuotas", "Mixto"} =>
          ~(data.implementation_fee_installments = 0
            \/ data.implementation_fee_installments < 1)
    /\ data.type \in {"Suscripcion periodica", "Mixto"} =>
          /\ data.recurring_fee_amount # 0
          /\ data.recurring_fee_currency # "None"
          /\ data.recurring_fee_frequency # "None"
          /\ data.recurring_fee_day_of_charge # 0

(* --------------------------- ProjectList.post -------------------------- *)
Project(sd, plan) == [id |-> 1, client_id |-> 1, start_date |-> sd, payment_plan |-> plan]

\* CreateProject with the flushed project surviving a plan that fails
\* validation
CreateProject_flush_kept(sd, plan) ==
    /\ pc = "idle"
    /\ projects = NoRow
    /\ IF plan = NoPlan \/ validate_plan_fields(plan)
       THEN /\ projects' = Project(sd, plan)
            /\ resp' = Response("create_project", 201, <<>>, "none")
       ELSE /\ projects' = Project(sd, NoPlan)
            /\ resp' = Response("create_project", 400, <<>>, "validation")
    /\ UNCHANGED <<today, svc_vars, exp_vars, payments>>

\* plan = NoPlan: the body carries no payment_plan
CreateProject(sd, plan) ==
    /\ pc = "idle"
    /\ projects = NoRow
    /\ IF plan = NoPlan \/ validate_plan_fields(plan)
       THEN /\ projects' = Project(sd, plan)
            /\ resp' = Response("create_project", 201, <<>>, "none")
       ELSE \* payment_plan_schema.load raises after the flush of the
            \* project: rollback discards the project too
            /\ projects' = projects
            /\ resp' = Response("create_project", 400, <<>>, "validation")
    /\ UNCHANGED <<today, svc_vars, exp_vars, payments>>

(* --------------------------- ProjectDetail.put ------------------------- *)
\* the bodies considered carry a payment_plan with one key
UpdateProject(id, key, value) ==
    /\ pc = "idle"
    /\ IF projects = NoRow \/ projects.id # id
       THEN /\ projects' = projects
            /\ resp' = Response("update_project", 400, <<>>, "lookup")
       ELSE IF projects.payment_plan # NoPlan
       THEN \* setattr on the stored plan, no schema validation
            /\ projects' = [projects EXCEPT !.payment_plan[key] = value]
            /\ resp' = Response("update_project", 200, <<>>, "none")
       ELSE \* a one-key body never passes payment_plan_schema.load
            \* (type is required): ValidationError, rollback
            /\ projects' = projects
            /\ resp' = Response("update_project", 400, <<>>, "validation")
    /\ UNCHANGED <<today, svc_vars, exp_vars, payments>>

(* -------------------------- GeneratePayments.post ---------------------- *)
\* round(x, 2) of x = num / den cents, num >= 0, den > 0: nearest cent.
\* On an exact tie the float decides by its binary representation; the
\* amounts of PlanBodies produce no tie, the tie branch (to even) is
\* never taken
RoundCents(num, den) ==
    LET q == num \div den
        r == num % den
    IN IF 2 * r < den THEN q
       ELSE IF 2 * r > den THEN q + 1
       ELSE IF q % 2 = 0 THEN q ELSE q + 1

\* frequency_months, in quarter months (0.25 month = 1)
frequency_months(f) ==
    CASE f = "Semanal"    -> 1
      [] f = "Quincenal"  -> 2
      [] f = "Mensual"    -> 4
      [] f = "Bimensual"  -> 8
      [] f = "Trimestral" -> 12
      [] f = "Semestral"  -> 24
      [] f = "Anual"      -> 48
      [] OTHER            -> 4

Payment(project, amount, currency, d, type, n) ==
    [project_id |-> project.id, client_id |-> project.client_id,
     amount |-> amount, currency |-> currency, date |-> d,
     status |-> "Pendiente", type |-> type, installment_number |-> n]

\* the implementation leg with installment i dated i + 1 months after the
\* start of the project
ImplementationPayments_shifted(project) ==
    LET plan == project.payment_plan IN
    IF plan.type \in {"Fee unico", "Fee por cuotas", "Mixto"}
       /\ plan.implementation_fee_total # 0
    THEN LET installments ==
                 Max(1, IF plan.implementation_fee_installments # 0
                        THEN plan.implementation_fee_installments ELSE 1)
         IN [k \in 1..installments |->
                Payment(project,
                        RoundCents(plan.implementation_fee_total, installments),
                        plan.implementation_fee_currency,
                        AddMonths(project.start_date, k),
                        "Implementacion", k)]
    ELSE <<>>

\* lines 358-381
ImplementationPayments(project) ==
    LET plan == project.payment_plan IN
    IF plan.type \in {"Fee unico", "Fee por cuotas", "Mixto"}
       /\ plan.implementation_fee_total # 0
    THEN LET installments ==
                 Max(1, IF plan.implementation_fee_installments # 0
                        THEN plan.implementation_fee_installments ELSE 1)
         IN [k \in 1..installments |->
                Payment(project,
                        RoundCents(plan.implementation_fee_total, installments),
                        plan.implementation_fee_currency,
                        AddMonths(project.start_date, k - 1),
                        "Implementacion", k)]
    ELSE <<>>

\* lines 383-385: the recurring leg is entered
HasRecurringLeg(plan) ==
    /\ plan.type \in {"Suscripcion periodica", "Mixto"}
    /\ plan.recurring_fee_amount # 0
    /\ plan.recurring_fee_frequency # "None"

\* line 409
ChargeDay(plan) == Min(plan.recurring_fee_day_of_charge, 28)

\* lines 399-410; start_date.replace(day=day) raises ValueError for day < 1
RecurringStartRaises(plan) ==
    plan.recurring_fee_day_of_charge # 0 /\ ChargeDay(plan) < 1

\* the start of the recurring leg without the grace shift
RecurringStart_no_grace(project) ==
    LET plan == project.payment_plan
    IN IF plan.recurring_fee_day_of_charge # 0
       THEN <<project.start_date[1], project.start_date[2], ChargeDay(plan)>>
       ELSE project.start_date

RecurringStart(project) ==
    LET plan == project.payment_plan
        interval == frequency_months(plan.recurring_fee_frequency)
        shifted == IF plan.recurring_fee_grace_periods # 0
                   THEN AddMonths(project.start_date,
                                  (plan.recurring_fee_grace_periods * interval) \div 4)
                   ELSE project.start_date
    IN IF plan.recurring_fee_day_of_charge # 0
       THEN <<shifted[1], shifted[2], ChargeDay(plan)>>
       ELSE shifted

\* the recurring leg with the discount applied to every occurrence
RecurringPayments_discount_all(project, months) ==
    LET plan == project.payment_plan IN
    IF HasRecurringLeg(plan)
    THEN LET interval == frequency_months(plan.recurring_fee_frequency)
             start_date == RecurringStart(project)
             num_payments == (months * 4) \div interval
         IN [k \in 1..num_payments |->
                Payment(project,
                        IF plan.recurring_fee_discount_periods # 0
                        THEN RoundCents(plan.recurring_fee_amount
                                        * (100 - plan.recurring_fee_discount_percentage), 100)
                        ELSE plan.recurring_fee_amount,
                        plan.recurring_fee_currency,
                        AddMonths(start_date, ((k - 1) * interval) \div 4),
                        "Recurrente", k)]
    ELSE <<>>

\* lines 412-436
RecurringPayments(project, months) ==
    LET plan == project.payment_plan IN
    IF HasRecurringLeg(plan)
    THEN LET interval == frequency_months(plan.recurring_fee_frequency)
             start_date == RecurringStart(project)
             num_payments == (months * 4) \div interval
         IN [k \in 1..num_payments |->
                Payment(project,
                        IF plan.recurring_fee_discount_periods # 0
                           /\ k - 1 < plan.recurring_fee_discount_periods
                        THEN RoundCents(plan.recurring_fee_amount
                                        * (100 - plan.recurring_fee_discount_percentage), 100)
                        ELSE plan.recurring_fee_amount,
                        plan.recurring_fee_currency,
                        AddMonths(start_date, ((k - 1) * interval) \div 4),
                        "Recurrente", k)]
    ELSE <<>>

\* an exception inside the try block that the request itself causes:
\* ValueError of date.replace, or the NOT NULL violation of
\* payments.currency at commit
GenerationRaises(project, months) ==
    \/ HasRecurringLeg(project.payment_plan)
       /\ RecurringStartRaises(project.payment_plan)
    \/ \E k \in DOMAIN ImplementationPayments(project) :
          ImplementationPayments(project)[k].currency = "None"
    \/ ~(HasRecurringLeg(project.payment_plan)
         /\ RecurringStartRaises(project.payment_plan))
       /\ \E k \in DOMAIN RecurringPayments(project, months) :
             RecurringPayments(project, months)[k].currency = "None"

\* the whole handler; commit_ok = FALSE: db.session.commit() fails
GeneratePayments(project_id, months, commit_ok) ==
    /\ pc = "idle"
    /\ Len(payments) < MaxStored
    /\ IF projects = NoRow \/ projects.id # project_id
       THEN \* get_or_404 raises NotFound inside the try block; the
            \* `except Exception` branch rolls back and returns 400
            /\ resp' = Response("generate_payments", 400, <<>>, "lookup")
            /\ payments' = payments
       ELSE IF projects.payment_plan = NoPlan
       THEN /\ resp' = Response("generate_payments", 400, <<>>, "no_plan")
            /\ payments' = payments
       ELSE IF GenerationRaises(projects, months) \/ ~commit_ok
       THEN /\ resp' = Response("generate_payments", 400, <<>>, "commit")
            /\ payments' = payments
       ELSE LET generated_payments ==
                    ImplementationPayments(projects)
                    \o RecurringPayments(projects, months)
            IN /\ payments' = payments \o generated_payments
               /\ resp' = Response("generate_payments", 201, generated_payments, "none")
    /\ UNCHANGED <<today, svc_vars, exp_vars, projects>>

(* --------------------------- utils/currency.py ------------------------- *)
\* fallback_rates.get(rate_key, 1.0); 0.00025 is 1 / 4000
fallback_rates(rate_key) ==
    IF rate_key = <<"USD", "COP">> THEN [num |-> 4000, den |-> 1]
    ELSE IF rate_key = <<"COP", "USD">> THEN [num |-> 1, den |-> 4000]
    ELSE [num |-> 1, den |-> 1]

\* the conversion_rate the live source answers with: 4100 and 0.00024
LiveRate(rate_key) ==
    IF rate_key = <<"USD", "COP">> THEN [num |-> 4100, den |-> 1]
    ELSE IF rate_key = <<"COP", "USD">> THEN [num |-> 3, den |-> 12500]
    ELSE [num |-> 1, den |-> 1]

\* what requests.get does during one call: a 200 answer with result
\* "success" (with or without the conversion_rate field), a 200 answer
\* with another result, another status code, or an exception
SourceOutcomes ==
    {"success", "no_rate_field", "not_success", "http_error",
     "timeout", "unreachable"}

\* amounts the conversion is called with
ConvertAmounts == {-250, 0, 100}

\* the body of get_exchange_rate without its try/except: an exception of
\* requests.get reaches the caller
RateBody_no_except(base_currency, target_currency, api_key, outcome) ==
    LET rate_key == <<base_currency, target_currency>> IN
    IF base_currency = target_currency
    THEN [raised |-> FALSE, rate |-> [num |-> 1, den |-> 1], how |-> "same"]
    ELSE IF ~api_key
    THEN [raised |-> FALSE, rate |-> fallback_rates(rate_key), how |-> "no_key"]
    ELSE IF outcome = "success"
    THEN [raised |-> FALSE, rate |-> LiveRate(rate_key), how |-> "live"]
    ELSE IF outcome \in {"timeout", "unreachable"}
    THEN [raised |-> TRUE, rate |-> NoRate, how |-> "raised"]
    ELSE [raised |-> FALSE, rate |-> fallback_rates(rate_key), how |-> "fallback"]

\* lines 22-59, the body of get_exchange_rate; api_key: the environment
\* holds EXCHANGE_RATE_API_KEY
RateBody(base_currency, target_currency, api_key, outcome) ==
    LET rate_key == <<base_currency, target_currency>> IN
    IF base_currency = target_currency
    THEN [raised |-> FALSE, rate |-> [num |-> 1, den |-> 1], how |-> "same"]
    ELSE IF ~api_key
    THEN [raised |-> FALSE, rate |-> fallback_rates(rate_key), how |-> "no_key"]
    ELSE IF outcome = "success"
    THEN [raised |-> FALSE, rate |-> LiveRate(rate_key), how |-> "live"]
    ELSE \* status # 200, result # "success", a missing conversion_rate,
         \* or an exception caught by `except Exception`
         [raised |-> FALSE, rate |-> fallback_rates(rate_key), how |-> "fallback"]

\* the body called on every lookup, the cache written and never read
get_exchange_rate_uncached(cache, base_currency, target_currency, api_key, outcome) ==
    LET rate_key == <<base_currency, target_currency>>
        r == RateBody(base_currency, target_currency, api_key, outcome)
    IN [raised |-> r.raised, rate |-> r.rate, how |-> r.how,
        cache |-> IF r.raised THEN cache
                  ELSE [cache EXCEPT ![rate_key] = r.rate]]

\* @lru_cache(maxsize=32) around the body: a cached pair is answered
\* from the cache, a returned value is stored, an exception is not
get_exchange_rate(cache, base_currency, target_currency, api_key, outcome) ==
    LET rate_key == <<base_currency, target_currency>> IN
    IF cache[rate_key] # NoRate
    THEN [raised |-> FALSE, rate |-> cache[rate_key], how |-> "cache", cache |-> cache]
    ELSE LET r == RateBody(base_currency, target_currency, api_key, outcome) IN
         [raised |-> r.raised, rate |-> r.rate, how |-> r.how,
          cache |-> IF r.raised THEN cache
                    ELSE [cache EXCEPT ![rate_key] = r.rate]]

\* convert_currency without the early return for equal currencies
convert_currency_no_shortcut(cache, amount, from_currency, to_currency, api_key, outcome) ==
    LET r == get_exchange_rate(cache, from_currency, to_currency, api_key, outcome) IN
    [raised |-> r.raised,
     value |-> [num |-> amount * r.rate.num, den |-> r.rate.den],
     how |-> r.how, cache |-> r.cache]

\* lines 61-80; the value is the rational num / den
convert_currency(cache, amount, from_currency, to_currency, api_key, outcome) ==
    IF from_currency = to_currency
    THEN [raised |-> FALSE, value |-> [num |-> amount, den |-> 1],
          how |-> "identity", cache |-> cache]
    ELSE LET r == get_exchange_rate(cache, from_currency, to_currency, api_key, outcome) IN
         [raised |-> r.raised,
          value |-> [num |-> amount * r.rate.num, den |-> r.rate.den],
          how |-> r.how, cache |-> r.cache]

\* one call of get_exchange_rate; resp.stage tells where the value came
\* from, "raised" that the call raised
GetExchangeRate(base_currency, target_currency, api_key, outcome) ==
    /\ pc = "idle"
    /\ LET r == get_exchange_rate(rate_cache, base_currency, target_currency,
                                  api_key, outcome) IN
       /\ rate_cache' = r.cache
       /\ resp' = Response("get_exchange_rate", 0, r.rate, r.how)
    /\ UNCHANGED <<today, exp_vars, pay_vars, incomes, expenses, tokens,
                   args, blacklisted_tokens, lookups>>

\* one call of convert_currency
ConvertCurrency(amount, from_currency, to_currency, api_key, outcome) ==
    /\ pc = "idle"
    /\ LET r == convert_currency(rate_cache, amount, from_currency, to_currency,
                                 api_key, outcome) IN
       /\ rate_cache' = r.cache
       /\ resp' = Response("convert_currency", 0, r.value, r.how)
    /\ UNCHANGED <<today, exp_vars, pay_vars, incomes, expenses, tokens,
                   args, blacklisted_tokens, lookups>>

\* lines 82-86: get_exchange_rate.cache_clear()
ClearExchangeRateCache ==
    /\ pc = "idle"
    /\ rate_cache' = [p \in CurrencyPairs |-> NoRate]
    /\ resp' = Response("clear_exchange_rate_cache", 0, NoRate, "none")
    /\ UNCHANGED <<today, exp_vars, pay_vars, incomes, expenses, tokens,
                   args, blacklisted_tokens, lookups>>

(* ------------- get_exchange_rate called by several threads ------------- *)
\* The lru_cache wrapper looks the key up, calls the body without holding
\* its lock on a miss, and stores the returned value unless another call
\* stored the key in the meantime; the caller gets the value of its own
\* call of the body.

\* thread t enters get_exchange_rate(base_currency, target_currency): a
\* hit returns the cached value, a miss goes on to the body
LookupBegin(t, base_currency, target_currency) ==
    /\ pc = "idle"
    /\ lookups[t].pc = "idle"
    /\ LET rate_key == <<base_currency, target_currency>> IN
       IF rate_cache[rate_key] # NoRate
       THEN lookups' = [lookups EXCEPT ![t] =
                           [pc |-> "done", rate_key |-> rate_key,
                            rate |-> rate_cache[rate_key], how |-> "cache"]]
       ELSE lookups' = [lookups EXCEPT ![t] =
                           [pc |-> "body", rate_key |-> rate_key,
                            rate |-> NoRate, how |-> "none"]]
    /\ UNCHANGED <<today, exp_vars, pay_vars, rate_cache, incomes, expenses,
                   tokens, args, blacklisted_tokens, resp>>

\* the body of thread t returns and the wrapper stores the value if the
\* key is still absent
LookupBody(t, api_key, outcome) ==
    /\ lookups[t].pc = "body"
    /\ LET rate_key == lookups[t].rate_key
           r == RateBody(rate_key[1], rate_key[2], api_key, outcome)
       IN /\ lookups' = [lookups EXCEPT ![t] =
                            [pc |-> IF r.raised THEN "raised" ELSE "done",
                             rate_key |-> rate_key, rate |-> r.rate, how |-> r.how]]
          /\ rate_cache' = IF r.raised \/ rate_cache[rate_key] # NoRate
                           THEN rate_cache
                           ELSE [rate_cache EXCEPT ![rate_key] = r.rate]
    /\ UNCHANGED <<today, exp_vars, pay_vars, incomes, expenses,
                   tokens, args, blacklisted_tokens, resp>>

\* thread t hands the rate to its caller
LookupReturn(t) ==
    /\ lookups[t].pc \in {"done", "raised"}
    /\ lookups' = [lookups EXCEPT ![t] = NoLookup]
    /\ resp' = Response("get_exchange_rate", t, lookups[t].rate, lookups[t].how)
    /\ UNCHANGED <<today, exp_vars, pay_vars, rate_cache, incomes, expenses,
                   tokens, args, blacklisted_tokens>>

(* ----------------------- rational arithmetic --------------------------- *)
\* the numbers of a report are sums of stored amounts (cents) and of
\* products amount * rate: rationals num / den
Plain(n) == [num |-> n, den |-> 1]

RatAdd(a, b) ==
    IF a.den = b.den THEN [num |-> a.num + b.num, den |-> a.den]
    ELSE [num |-> a.num * b.den + b.num * a.den, den |-> a.den * b.den]

\* float(amount) * rate
RatTimes(amount, rate) == [num |-> amount * rate.num, den |-> rate.den]

(* ----------------------- CashFlowReport.get ---------------------------- *)
\* rows of the tables incomes and expenses: <<date, cents, currency>>
IncomeInputs ==
    {<<<<2023, 11, 20>>, 100, "USD">>, <<<<2023, 12, 20>>, 250000, "COP">>,
     <<<<2024, 1, 10>>, 70, "USD">>}

ExpenseInputs ==
    {<<<<2023, 12, 5>>, 40, "USD">>, <<<<2024, 1, 12>>, 120000, "COP">>}

LedgerRow(in) == [date |-> in[1], amount |-> in[2], currency |-> in[3]]

\* the contents a table of at most n rows can have
TablesUpTo(S, n) == UNION {[1..k -> S] : k \in 0..n}

\* the rows of a table were inserted in the order of their dates
InDateOrder(rows) ==
    \A k \in 1..(Len(rows) - 1) : ~DateLT(rows[k + 1].date, rows[k].date)

\* values of the query argument period that the handler buckets by
PeriodArgs == {"month", "quarter", "year"}

\* the label of the period a date falls in, as the pair <<year, k>>:
\* k is the month of '%Y-%m', the quarter of '%Y-Qq', 0 for '%Y'
PeriodLabel(period, d) ==
    <<d[1], IF period = "month" THEN d[2]
            ELSE IF period = "quarter" THEN (d[2] - 1) \div 3 + 1
            ELSE 0>>

\* the order of the label strings under sorted()
LabelLT(a, b) == a[1] < b[1] \/ (a[1] = b[1] /\ a[2] < b[2])

RECURSIVE SortLabels(_)
SortLabels(S) ==
    IF S = {} THEN <<>>
    ELSE LET m == CHOOSE x \in S : \A y \in S : ~LabelLT(y, x)
         IN <<m>> \o SortLabels(S \ {m})

\* the rows the query selects: date >= start_date
Selected(rows, start_date) ==
    LET Keep(r) == ~DateLT(r.date, start_date) IN SelectSeq(rows, Keep)

\* func.sum(amount) of the group (label, currency) of the rows
GroupSum(rows, period, label, cur) ==
    LET f[k \in 0..Len(rows)] ==
            IF k = 0 THEN 0
            ELSE f[k - 1]
                 + (IF PeriodLabel(period, rows[k].date) = label
                       /\ rows[k].currency = cur
                    THEN rows[k].amount ELSE 0)
    IN f[Len(rows)]

\* lines 97-149: the per-currency sums of one period
PeriodSums(inc, exp, period, label) ==
    [income   |-> [c \in CurrencyCodes |-> GroupSum(inc, period, label, c)],
     expenses |-> [c \in CurrencyCodes |-> GroupSum(exp, period, label, c)],
     net      |-> [c \in CurrencyCodes |->
                     GroupSum(inc, period, label, c)
                     - GroupSum(exp, period, label, c)]]

\* lines 152-171 with both currencies converted by the rate: the amount
\* already in the target currency is multiplied by the rate as well
Collapse_convert_all(sums, currency, rate) ==
    LET source_currency == IF currency = "COP" THEN "USD" ELSE "COP" IN
    [income   |-> RatAdd(RatTimes(sums.income[currency], rate),
                         RatTimes(sums.income[source_currency], rate)),
     expenses |-> RatAdd(RatTimes(sums.expenses[currency], rate),
                         RatTimes(sums.expenses[source_currency], rate)),
     net      |-> RatAdd(RatTimes(sums.net[currency], rate),
                         RatTimes(sums.net[source_currency], rate))]

\* lines 152-171: the sums of one period collapsed to the target currency
Collapse(sums, currency, rate) ==
    LET source_currency == IF currency = "COP" THEN "USD" ELSE "COP" IN
    [income   |-> RatAdd(Plain(sums.income[currency]),
                         RatTimes(sums.income[source_currency], rate)),
     expenses |-> RatAdd(Plain(sums.expenses[currency]),
                         RatTimes(sums.expenses[source_currency], rate)),
     net      |-> RatAdd(Plain(sums.net[currency]),
                         RatTimes(sums.net[source_currency], rate))]

\* lines 181-199 for a target currency: the totals of the collapsed
\* periods, the total of the other currency (0) converted and added
RatTotal(entries, field, rate) ==
    LET f[k \in 0..Len(entries)] ==
            IF k = 0 THEN Plain(0)
            ELSE RatAdd(f[k - 1], entries[k][field])
    IN RatAdd(f[Len(entries)], RatTimes(0, rate))

\* lines 181-192 without a target currency: totals per currency
PlainTotal(entries, field) ==
    [c \in CurrencyCodes |->
        LET f[k \in 0..Len(entries)] ==
                IF k = 0 THEN 0 ELSE f[k - 1] + entries[k][field][c]
        IN f[Len(entries)]]

\* the whole handler; the first conversion of the request looks the rate
\* up and the lru_cache serves the later ones. Each local of the handler
\* is bound once, as the one element of a singleton
CashFlowReport(period, currency, months, api_key, outcome) ==
    /\ pc = "idle"
    /\ args' = [period |-> period, currency |-> currency, months |-> months]
    /\ IF period \notin {"month", "quarter", "year"}
       THEN /\ resp' = Response("cash_flow", 400, <<>>, "period")
            /\ rate_cache' = rate_cache
       ELSE \E inc \in {Selected(incomes, AddMonths(today, 0 - months))},
               exp \in {Selected(expenses, AddMonths(today, 0 - months))} :
            \E labels \in {SortLabels(
                    {PeriodLabel(period, inc[k].date) : k \in DOMAIN inc}
                    \cup {PeriodLabel(period, exp[k].date) : k \in DOMAIN exp})} :
               IF currency \in {"COP", "USD"}
               THEN LET source_currency == IF currency = "COP" THEN "USD" ELSE "COP" IN
                    \E r \in {get_exchange_rate(rate_cache, source_currency, currency,
                                                api_key, outcome)} :
                    \* a list: one entry per label, in sorted order
                    \E cash_flow_data \in
                          {<<>> \o
                           [k \in DOMAIN labels |->
                               [period |-> labels[k]] @@
                               Collapse(PeriodSums(inc, exp, period, labels[k]),
                                        currency, r.rate)]} :
                       /\ rate_cache' = r.cache
                       /\ resp' = Response("cash_flow", 200,
                              [data |-> cash_flow_data,
                               summary |->
                                  [total_income |-> RatTotal(cash_flow_data, "income", r.rate),
                                   total_expenses |-> RatTotal(cash_flow_data, "expenses", r.rate),
                                   total_net |-> RatTotal(cash_flow_data, "net", r.rate)]],
                              currency)
               ELSE \E cash_flow_data \in
                          {<<>> \o
                           [k \in DOMAIN labels |->
                               [period |-> labels[k]] @@
                               PeriodSums(inc, exp, period, labels[k])]} :
                       /\ rate_cache' = rate_cache
                       /\ resp' = Response("cash_flow", 200,
                              [data |-> cash_flow_data,
                               summary |->
                                  [total_income |-> PlainTotal(cash_flow_data, "income"),
                                   total_expenses |-> PlainTotal(cash_flow_data, "expenses"),
                                   total_net |-> PlainTotal(cash_flow_data, "net")]],
                              "per_currency")
    /\ UNCHANGED <<today, exp_vars, pay_vars, incomes, expenses, tokens,
                   blacklisted_tokens, lookups>>

(* ------------------------------ api/auth.py ---------------------------- *)
\* a request without an Authorization header
NoToken == [jti |-> 0, type |-> "none"]

\* create_access_token / create_refresh_token: a token with a fresh jti
create_token(type) == [jti |-> Cardinality(tokens) + 1, type |-> type]

\* the token_in_blocklist_loader callback
check_if_token_in_blacklist(jwt_payload) == jwt_payload.jti \in blacklisted_tokens

\* jwt_required without the blocklist callback
jwt_required_no_blocklist(token, refresh, expired) ==
    IF token = NoToken THEN [code |-> 401, stage |-> "missing"]
    ELSE IF expired THEN [code |-> 401, stage |-> "expired"]
    ELSE IF token.type # (IF refresh THEN "refresh" ELSE "access")
    THEN [code |-> 422, stage |-> "wrong_type"]
    ELSE [code |-> 0, stage |-> "none"]

\* @jwt_required(refresh=...): the answer that ends the request, or code 0
\* when the view function runs. The presented token is one this
\* application signed; expired says whether its lifetime is over
jwt_required(token, refresh, expired) ==
    IF token = NoToken THEN [code |-> 401, stage |-> "missing"]
    ELSE IF expired THEN [code |-> 401, stage |-> "expired"]
    ELSE IF token.type # (IF refresh THEN "refresh" ELSE "access")
    THEN [code |-> 422, stage |-> "wrong_type"]
    ELSE IF check_if_token_in_blacklist(token)
    THEN [code |-> 401, stage |-> "revoked"]
    ELSE [code |-> 0, stage |-> "none"]

\* Login.post; valid: the user exists and check_password accepts
Login(valid) ==
    /\ pc = "idle"
    /\ IF valid
       THEN /\ Cardinality(tokens) + 2 <= MaxTokens
            /\ LET access_token == create_token("access")
                   refresh_token == [jti |-> access_token.jti + 1, type |-> "refresh"]
               IN /\ tokens' = tokens \cup {access_token, refresh_token}
                  /\ resp' = Response("login", 200, access_token.jti, "none")
       ELSE /\ tokens' = tokens
            /\ resp' = Response("login", 401, 0, "credentials")
    /\ UNCHANGED <<today, exp_vars, pay_vars, rate_cache, incomes, expenses,
                   args, blacklisted_tokens, lookups>>

\* TokenRefresh.post; the user of a token this application signed exists
TokenRefresh(token, expired) ==
    /\ pc = "idle"
    /\ LET v == jwt_required(token, TRUE, expired) IN
       IF v.code # 0
       THEN /\ tokens' = tokens
            /\ resp' = Response("refresh", v.code, token.jti, v.stage)
       ELSE /\ Cardinality(tokens) + 1 <= MaxTokens
            /\ tokens' = tokens \cup {create_token("access")}
            /\ resp' = Response("refresh", 200, create_token("access").jti, "none")
    /\ UNCHANGED <<today, exp_vars, pay_vars, rate_cache, incomes, expenses,
                   args, blacklisted_tokens, lookups>>

\* Logout.post
Logout(token, expired) ==
    /\ pc = "idle"
    /\ LET v == jwt_required(token, FALSE, expired) IN
       IF v.code # 0
       THEN /\ blacklisted_tokens' = blacklisted_tokens
            /\ resp' = Response("logout", v.code, token.jti, v.stage)
       ELSE /\ blacklisted_tokens' = blacklisted_tokens \cup {token.jti}
            /\ resp' = Response("logout", 200, token.jti, "none")
    /\ UNCHANGED <<today, exp_vars, pay_vars, rate_cache, incomes, expenses,
                   args, tokens, lookups>>

\* a request to an endpoint behind @jwt_required(), as far as the
\* decorator: 200 stands for the answer of the view function
ProtectedRequest(token, expired) ==
    /\ pc = "idle"
    /\ LET v == jwt_required(token, FALSE, expired) IN
       resp' = Response("protected", IF v.code # 0 THEN v.code ELSE 200,
                        token.jti, v.stage)
    /\ UNCHANGED <<today, exp_vars, pay_vars, svc_vars>>

(* -------------------- FinancialProjectionReport.get -------------------- *)
\* rows of the table payments: <<date, cents, currency, status>>
PaymentInputs ==
    {<<<<2024, 1, 20>>, 100, "USD", "Pendiente">>,
     <<<<2024, 2, 10>>, 250000, "COP", "Pendiente">>,
     <<<<2024, 3, 5>>, 70, "USD", "Pendiente">>,
     <<<<2024, 2, 12>>, 50, "USD", "Pagado">>}

\* rows of the table accrued_expenses: <<due_date, cents, currency, status>>
AccruedInputs ==
    {<<<<2024, 1, 10>>, 30000, "COP", "pendiente">>,
     <<<<2024, 1, 25>>, 40, "USD", "pendiente">>,
     <<<<2024, 2, 20>>, 120000, "COP", "pendiente">>}

\* a payment recorded for a project without a plan
PaymentRow(in) ==
    [Payment(Project(Today, NoPlan), in[2], in[3], in[1], "Recurrente", 1)
        EXCEPT !.status = in[4]]

\* an accrued expense recorded by hand
AccruedRow(in) ==
    [due_date |-> in[1], amount |-> in[2], currency |-> in[3],
     status |-> in[4], is_recurring |-> FALSE, recurring_id |-> 0]

\* lines 623-627: Payment.date in [today, end_date], status PENDIENTE
UpcomingPayments(rows, from, end_date) ==
    LET Keep(r) == /\ ~DateLT(r.date, from)
                   /\ ~DateLT(end_date, r.date)
                   /\ r.status = "Pendiente"
    IN SelectSeq(rows, Keep)

\* lines 630-634: AccruedExpense.due_date in [today, end_date], status
\* PENDIENTE
UpcomingExpenses(rows, from, end_date) ==
    LET Keep(r) == /\ ~DateLT(r.due_date, from)
                   /\ ~DateLT(end_date, r.due_date)
                   /\ r.status = "pendiente"
    IN SelectSeq(rows, Keep)

\* month_start and month_end of iteration i of the loop
MonthStart(from, k) ==
    LET month_date == AddMonths(from, k) IN <<month_date[1], month_date[2], 1>>

MonthEnd(from, k) ==
    LET month_date == AddMonths(from, k)
    IN <<month_date[1], month_date[2], DaysInMonth(month_date[1], month_date[2])>>

\* month_payments: [p for p in payments if month_start <= p.date <= month_end]
MonthPayments(rows, month_start, month_end) ==
    LET Keep(r) == ~DateLT(r.date, month_start) /\ ~DateLT(month_end, r.date)
    IN SelectSeq(rows, Keep)

\* month_expenses: [e for e in expenses if month_start <= e.due_date <= month_end]
MonthExpenses(rows, month_start, month_end) ==
    LET Keep(r) == ~DateLT(r.due_date, month_start) /\ ~DateLT(month_end, r.due_date)
    IN SelectSeq(rows, Keep)

\* the amounts of the rows of one currency, added up
AmountOf(rows, cur) ==
    LET f[k \in 0..Len(rows)] ==
            IF k = 0 THEN 0
            ELSE f[k - 1] + (IF rows[k].currency = cur THEN rows[k].amount ELSE 0)
    IN f[Len(rows)]

\* lines 645-694: the entry of one month before conversion
MonthData(pay, exp, from, k) ==
    LET month_payments == MonthPayments(pay, MonthStart(from, k), MonthEnd(from, k))
        month_expenses == MonthExpenses(exp, MonthStart(from, k), MonthEnd(from, k))
    IN [income   |-> [c \in CurrencyCodes |-> AmountOf(month_payments, c)],
        expenses |-> [c \in CurrencyCodes |-> AmountOf(month_expenses, c)],
        net      |-> [c \in CurrencyCodes |->
                         AmountOf(month_payments, c) - AmountOf(month_expenses, c)],
        details  |-> [payments |-> month_payments, expenses |-> month_expenses]]

\* lines 697-715: income, expenses and net of one month collapsed to the
\* target currency
MonthCollapse(data, currency, rate) ==
    LET source_currency == IF currency = "COP" THEN "USD" ELSE "COP" IN
    [income   |-> RatAdd(Plain(data.income[currency]),
                         RatTimes(data.income[source_currency], rate)),
     expenses |-> RatAdd(Plain(data.expenses[currency]),
                         RatTimes(data.expenses[source_currency], rate)),
     net      |-> RatAdd(Plain(data.net[currency]),
                         RatTimes(data.net[source_currency], rate)),
     details  |-> data.details]

\* the running balance that restarts in every month
running_balance_not_carried(months_data, k, currency) ==
    IF currency \in {"COP", "USD"}
    THEN RatAdd(Plain(0), months_data[k].net)
    ELSE [c \in CurrencyCodes |-> months_data[k].net[c]]

\* lines 719-731: running_balance after the k-th month in sorted order,
\* starting from {'COP': 0, 'USD': 0}
running_balance(months_data, k, currency) ==
    IF currency \in {"COP", "USD"}
    THEN LET f[j \in 0..k] ==
                 IF j = 0 THEN Plain(0) ELSE RatAdd(f[j - 1], months_data[j].net)
         IN f[k]
    ELSE [c \in CurrencyCodes |->
             LET f[j \in 0..k] ==
                     IF j = 0 THEN 0 ELSE f[j - 1] + months_data[j].net[c]
             IN f[k]]

\* lines 739-752 for a target currency: the dict keeps both keys, the
\* key of the other currency stays 0
TargetTotal(entries, field, currency) ==
    [c \in CurrencyCodes |->
        IF c = currency
        THEN LET f[k \in 0..Len(entries)] ==
                     IF k = 0 THEN Plain(0) ELSE RatAdd(f[k - 1], entries[k][field])
             IN f[Len(entries)]
        ELSE Plain(0)]

\* the whole handler; the conversions of the first month look the rate up
\* and the lru_cache serves the later ones. Each local of the handler is
\* bound once, as the one element of a singleton
FinancialProjectionReport(currency, months, api_key, outcome) ==
    /\ pc = "idle"
    /\ args' = [period |-> "none", currency |-> currency, months |-> months]
    /\ \E pay \in {UpcomingPayments(payments, today, AddMonths(today, months))},
          exp \in {UpcomingExpenses(accrued_expenses, today, AddMonths(today, months))},
          \* the keys of the dict projection, in sorted order
          labels \in {SortLabels({<<MonthStart(today, k)[1], MonthStart(today, k)[2]>> :
                                     k \in 0..(months - 1)})} :
       LET \* the iteration that wrote the entry of a label last
           IterationOf(label) ==
               CHOOSE k \in 0..(months - 1) :
                  /\ label = <<MonthStart(today, k)[1], MonthStart(today, k)[2]>>
                  /\ \A j \in (k + 1)..(months - 1) :
                        label # <<MonthStart(today, j)[1], MonthStart(today, j)[2]>>
       IN IF currency \in {"COP", "USD"}
          THEN LET source_currency == IF currency = "COP" THEN "USD" ELSE "COP" IN
               \E r \in {IF months >= 1
                         THEN get_exchange_rate(rate_cache, source_currency, currency,
                                                api_key, outcome)
                         ELSE [rate |-> NoRate, cache |-> rate_cache]} :
               \E months_data \in
                     {<<>> \o
                      [k \in DOMAIN labels |->
                          MonthCollapse(MonthData(pay, exp, today, IterationOf(labels[k])),
                                        currency, r.rate)]} :
               \E projection_data \in
                     {<<>> \o
                      [k \in DOMAIN labels |->
                          [month |-> labels[k],
                           running_balance |-> running_balance(months_data, k, currency)]
                          @@ months_data[k]]} :
                  /\ rate_cache' = r.cache
                  /\ resp' = Response("financial_projection", 200,
                         [data |-> projection_data,
                          summary |->
                             [total_projected_income |->
                                 TargetTotal(projection_data, "income", currency),
                              total_projected_expenses |->
                                 TargetTotal(projection_data, "expenses", currency),
                              total_projected_net |->
                                 TargetTotal(projection_data, "net", currency),
                              final_balance |->
                                 [c \in CurrencyCodes |->
                                     IF c = currency
                                     THEN running_balance(months_data, Len(months_data),
                                                          currency)
                                     ELSE Plain(0)]]],
                         currency)
          ELSE \E months_data \in
                     {<<>> \o
                      [k \in DOMAIN labels |->
                          MonthData(pay, exp, today, IterationOf(labels[k]))]} :
               \E projection_data \in
                     {<<>> \o
                      [k \in DOMAIN labels |->
                          [month |-> labels[k],
                           running_balance |-> running_balance(months_data, k, currency)]
                          @@ months_data[k]]} :
                  /\ rate_cache' = rate_cache
                  /\ resp' = Response("financial_projection", 200,
                         [data |-> projection_data,
                          summary |->
                             [total_projected_income |-> PlainTotal(projection_data, "income"),
                              total_projected_expenses |-> PlainTotal(projection_data, "expenses"),
                              total_projected_net |-> PlainTotal(projection_data, "net"),
                              final_balance |->
                                 running_balance(months_data, Len(months_data), currency)]],
                         "per_currency")
    /\ UNCHANGED <<today, exp_vars, pay_vars, incomes, expenses, tokens,
                   blacklisted_tokens, lookups>>

(* --------------------- OverdueAccruedExpenses.get ---------------------- *)
\* rows of the table accrued_expenses around today: <<due_date, cents,
\* currency>>, each in every status
SweepInputs ==
    {<<d[1], d[2], d[3], st>> :
        d \in {<<<<2023, 12, 31>>, 30000, "COP">>, <<<<2024, 1, 10>>, 40, "USD">>,
               <<Today, 40, "USD">>, <<<<2024, 2, 20>>, 120000, "COP">>},
        st \in {"pendiente", "pagado", "vencido"}}

\* the filter of the query with due_date <= today
IsOverdue_due_today(row, d) ==
    ~DateLT(d, row.due_date) /\ row.status = "pendiente"

\* lines 624-627: due_date < today and status PENDIENTE
IsOverdue(row, d) ==
    DateLT(row.due_date, d) /\ row.status = "pendiente"

\* the whole handler; commit_ok = FALSE: db.session.commit() raises and
\* the request ends with 500, the session is discarded
OverdueAccruedExpenses(currency, api_key, outcome, commit_ok) ==
    /\ pc = "idle"
    /\ args' = [period |-> "none", currency |-> currency, months |-> 0]
    /\ IF ~commit_ok
       THEN /\ accrued_expenses' = accrued_expenses
            /\ rate_cache' = rate_cache
            /\ resp' = Response("overdue", 500, <<>>, "commit")
       ELSE \E swept \in
                  {<<>> \o
                   [k \in DOMAIN accrued_expenses |->
                       IF IsOverdue(accrued_expenses[k], today)
                       THEN [accrued_expenses[k] EXCEPT !.status = "vencido"]
                       ELSE accrued_expenses[k]]} :
            \E overdue_expenses \in
                  {LET Hit(k) == IsOverdue(accrued_expenses[k], today)
                       idx == SelectSeq([k \in DOMAIN accrued_expenses |-> k], Hit)
                   IN <<>> \o [j \in DOMAIN idx |-> swept[idx[j]]]} :
               LET total_cop == AmountOf(overdue_expenses, "COP")
                   total_usd == AmountOf(overdue_expenses, "USD")
               IN /\ accrued_expenses' = swept
                  /\ IF currency \in {"COP", "USD"}
                     THEN LET source_currency == IF currency = "COP" THEN "USD" ELSE "COP"
                              r == get_exchange_rate(rate_cache, source_currency, currency,
                                                     api_key, outcome)
                              own == IF currency = "COP" THEN total_cop ELSE total_usd
                              other == IF currency = "COP" THEN total_usd ELSE total_cop
                          IN /\ rate_cache' = r.cache
                             /\ resp' = Response("overdue", 200,
                                    [data |-> overdue_expenses,
                                     total |-> RatAdd(Plain(own), RatTimes(other, r.rate))],
                                    currency)
                     ELSE /\ rate_cache' = rate_cache
                          /\ resp' = Response("overdue", 200,
                                 [data |-> overdue_expenses,
                                  total |-> [COP |-> total_cop, USD |-> total_usd]],
                                 "per_currency")
    /\ UNCHANGED <<today, recurring_expenses, pc, locals, pay_vars, incomes,
                   expenses, tokens, blacklisted_tokens, lookups>>

\* the recurrence projector on stored templates; templates are created,
\* paused and resumed
Next ==
    \/ \E f \in ExpenseFrequencyType, sd \in ObligationDates,
          amt \in AmountInputs, st \in RecurringExpenseStatus :
          CreateRecurringExpense(f, sd, amt, st)
    \/ \E id \in RequestIds, st \in RecurringExpenseStatus, commit_ok \in BOOLEAN :
          UpdateRecurringExpense(id, "status", st, commit_ok)
    \/ \E id \in RequestIds, months \in 0..MaxMonths : GenerateBegin(id, months)
    \/ GenerateStep
    \/ \E dump_ok \in BOOLEAN : GenerateCommit(dump_ok)
    \/ GenerateFail

Spec == Init /\ [][Next]_vars

\* the request handler runs to its return once it has started: the loop
\* body and the commit are executed whenever they are the next statement
FairSpec ==
    /\ Spec
    /\ WF_vars(GenerateStep)
    /\ WF_vars(\E dump_ok \in BOOLEAN : GenerateCommit(dump_ok))

\* the life of one template from an empty table: create, every update
\* the PUT handler accepts (status and the two dates), generate
CrudInit ==
    /\ Init
    /\ recurring_expenses = NoRow

\* dates a client sends in the body of an update: one past, one future
UpdateDates == {<<2022, 1, 15>>, <<2024, 1, 31>>}

CrudNext ==
    \/ Next
    \/ \E id \in RequestIds, d \in UpdateDates, commit_ok \in BOOLEAN :
          UpdateRecurringExpense(id, "next_payment", d, commit_ok)
    \/ \E id \in RequestIds, d \in UpdateDates, commit_ok \in BOOLEAN :
          UpdateRecurringExpense(id, "start_date", d, commit_ok)

CrudSpec == CrudInit /\ [][CrudNext]_vars

\* the payment-plan expander on the plans a project is created with
PayNext ==
    \/ \E sd \in ProjectDates, plan \in PlanBodies \cup {NoPlan} :
          CreateProject(sd, plan)
    \/ \E id \in RequestIds, months \in 0..MaxMonths, commit_ok \in BOOLEAN :
          GeneratePayments(id, months, commit_ok)

PayInit ==
    /\ Init
    /\ recurring_expenses = NoRow

PaySpec == PayInit /\ [][PayNext]_vars

\* the expander together with the PUT handler of the project, which
\* rewrites fields of the stored plan
PayCrudNext ==
    \/ PayNext
    \/ \E id \in RequestIds, type \in PaymentPlanType :
          UpdateProject(id, "type", type)
    \/ \E id \in RequestIds, key \in {"implementation_fee_total",
                                        "implementation_fee_installments"} :
          UpdateProject(id, key, 0)
    \/ \E id \in RequestIds, day \in {0, -1} :
          UpdateProject(id, "recurring_fee_day_of_charge", day)

PayCrudSpec == PayInit /\ [][PayCrudNext]_vars

\* the two generation endpoints side by side, over stored templates
GenInit ==
    /\ today = Today
    /\ recurring_expenses \in
          {NoRow} \cup
          {RecurringExpense(f, sd, sd, <<100, "USD">>, st) :
              f \in {"Quincenal", "Mensual"}, sd \in ObligationDates,
              st \in RecurringExpenseStatus}
    /\ projects \in
          {NoRow, Project(<<2024, 1, 31>>, NoPlan)} \cup
          {Project(<<2024, 1, 31>>, plan) :
              plan \in {b \in PlanBodies :
                           /\ validate_plan_fields(b)
                           /\ b.recurring_fee_grace_periods = 0
                           /\ b.recurring_fee_discount_periods = 2}}
    /\ accrued_expenses = <<>>
    /\ payments = <<>>
    /\ pc = "idle"
    /\ request = NoRequest
    /\ i = 0
    /\ current_date = NoDate
    /\ next_payment_date = NoDate
    /\ generated_expenses = <<>>
    /\ resp = NoResp
    /\ rate_cache = [p \in CurrencyPairs |-> NoRate]
    /\ incomes = <<>>
    /\ expenses = <<>>
    /\ tokens = {}
    /\ args = NoArgs
    /\ blacklisted_tokens = {}
    /\ lookups = [t \in Callers |-> NoLookup]

GenNext ==
    \/ \E id \in RequestIds, months \in 0..MaxMonths : GenerateBegin(id, months)
    \/ GenerateStep
    \/ \E dump_ok \in BOOLEAN : GenerateCommit(dump_ok)
    \/ GenerateFail
    \/ \E id \in RequestIds, months \in 0..MaxMonths, commit_ok \in BOOLEAN :
          GeneratePayments(id, months, commit_ok)

GenSpec == GenInit /\ [][GenNext]_vars

\* the currency conversion service called directly
RateNext ==
    \/ \E base_currency \in CurrencyCodes, target_currency \in CurrencyCodes,
          api_key \in BOOLEAN, outcome \in SourceOutcomes :
          GetExchangeRate(base_currency, target_currency, api_key, outcome)
    \/ \E amount \in ConvertAmounts,
          from_currency \in CurrencyCodes, to_currency \in CurrencyCodes,
          api_key \in BOOLEAN, outcome \in SourceOutcomes :
          ConvertCurrency(amount, from_currency, to_currency, api_key, outcome)
    \/ ClearExchangeRateCache

\* report requests on several threads that look rates up side by side;
\* the environment holds EXCHANGE_RATE_API_KEY
RaceNext ==
    \/ \E t \in Callers, base_currency \in CurrencyCodes :
          LookupBegin(t, base_currency, IF base_currency = "COP" THEN "USD" ELSE "COP")
    \/ \E t \in Callers, outcome \in {"success", "timeout"} :
          LookupBody(t, TRUE, outcome)
    \/ \E t \in Callers : LookupReturn(t)

RaceInit ==
    /\ Init
    /\ recurring_expenses = NoRow

RaceSpec == RaceInit /\ [][RaceNext]_vars

RateInit ==
    /\ Init
    /\ recurring_expenses = NoRow

RateSpec == RateInit /\ [][RateNext]_vars

\* the token endpoints and a protected endpoint
AuthNext ==
    \/ \E valid \in BOOLEAN : Login(valid)
    \/ \E token \in tokens \cup {NoToken}, expired \in BOOLEAN :
          TokenRefresh(token, expired)
    \/ \E token \in tokens \cup {NoToken}, expired \in BOOLEAN :
          Logout(token, expired)
    \/ \E token \in tokens \cup {NoToken}, expired \in BOOLEAN :
          ProtectedRequest(token, expired)

AuthInit ==
    /\ Init
    /\ recurring_expenses = NoRow

AuthSpec == AuthInit /\ [][AuthNext]_vars

\* the overdue sweep over a given content of accrued_expenses, in the
\* order of the due dates
SweepInit ==
    /\ today = Today
    /\ accrued_expenses \in TablesUpTo({AccruedRow(in) : in \in SweepInputs}, MaxRows)
    /\ \A k \in 1..(Len(accrued_expenses) - 1) :
          ~DateLT(accrued_expenses[k + 1].due_date, accrued_expenses[k].due_date)
    /\ rate_cache = [p \in CurrencyPairs |-> NoRate]
    /\ recurring_expenses = NoRow
    /\ projects = NoRow
    /\ payments = <<>>
    /\ incomes = <<>>
    /\ expenses = <<>>
    /\ pc = "idle"
    /\ request = NoRequest
    /\ i = 0
    /\ current_date = NoDate
    /\ next_payment_date = NoDate
    /\ generated_expenses = <<>>
    /\ resp = NoResp
    /\ tokens = {}
    /\ args = NoArgs
    /\ blacklisted_tokens = {}
    /\ lookups = [t \in Callers |-> NoLookup]

SweepNext ==
    \E currency \in {"COP", "USD", "none"}, outcome \in {"success", "timeout"},
       commit_ok \in BOOLEAN :
       OverdueAccruedExpenses(currency, TRUE, outcome, commit_ok)

SweepSpec == SweepInit /\ [][SweepNext]_vars

\* the cash-flow report over a given content of incomes and expenses
CashInit ==
    /\ today = Today
    /\ incomes \in TablesUpTo({LedgerRow(in) : in \in IncomeInputs}, MaxRows)
    /\ expenses \in TablesUpTo({LedgerRow(in) : in \in ExpenseInputs}, MaxRows)
    /\ Len(incomes) + Len(expenses) <= MaxRows
    /\ InDateOrder(incomes)
    /\ InDateOrder(expenses)
    /\ rate_cache = [p \in CurrencyPairs |-> NoRate]
    /\ recurring_expenses = NoRow
    /\ accrued_expenses = <<>>
    /\ projects = NoRow
    /\ payments = <<>>
    /\ pc = "idle"
    /\ request = NoRequest
    /\ i = 0
    /\ current_date = NoDate
    /\ next_payment_date = NoDate
    /\ generated_expenses = <<>>
    /\ resp = NoResp
    /\ tokens = {}
    /\ args = NoArgs
    /\ blacklisted_tokens = {}
    /\ lookups = [t \in Callers |-> NoLookup]

CashNext ==
    \/ \E period \in PeriodArgs, currency \in CurrencyCodes, months \in {1, MaxMonths},
          outcome \in {"success", "timeout"} :
          CashFlowReport(period, currency, months, TRUE, outcome)
    \/ \E period \in PeriodArgs :
          CashFlowReport(period, "ALL", MaxMonths, TRUE, "success")
    \/ CashFlowReport("week", "COP", MaxMonths, TRUE, "success")

CashSpec == CashInit /\ [][CashNext]_vars

\* the financial projection over given tables payments and
\* accrued_expenses, each in the order of its dates
ProjInit ==
    /\ today = Today
    /\ projects = Project(Today, NoPlan)
    /\ payments \in TablesUpTo({PaymentRow(in) : in \in PaymentInputs}, MaxRows)
    /\ accrued_expenses \in TablesUpTo({AccruedRow(in) : in \in AccruedInputs}, MaxRows)
    /\ Len(payments) + Len(accrued_expenses) <= MaxRows
    /\ InDateOrder(payments)
    /\ \A k \in 1..(Len(accrued_expenses) - 1) :
          ~DateLT(accrued_expenses[k + 1].due_date, accrued_expenses[k].due_date)
    /\ rate_cache = [p \in CurrencyPairs |-> NoRate]
    /\ recurring_expenses = NoRow
    /\ incomes = <<>>
    /\ expenses = <<>>
    /\ pc = "idle"
    /\ request = NoRequest
    /\ i = 0
    /\ current_date = NoDate
    /\ next_payment_date = NoDate
    /\ generated_expenses = <<>>
    /\ resp = NoResp
    /\ tokens = {}
    /\ args = NoArgs
    /\ blacklisted_tokens = {}
    /\ lookups = [t \in Callers |-> NoLookup]

ProjNext ==
    \E currency \in {"COP", "USD", "ALL"}, months \in 1..MaxMonths,
       outcome \in {"success", "timeout"} :
       FinancialProjectionReport(currency, months, TRUE, outcome)

ProjSpec == ProjInit /\ [][ProjNext]_vars

(* ======================= recurrence projector ========================== *)
\* a generate call returns 201 on this step; its unprimed state is the
\* state the call started from, plus its locals
GenerateReturns == pc = "loop" /\ pc' = "idle" /\ resp'.code = 201

DueDates(rows) == [k \in DOMAIN rows |-> rows[k].due_date]

\* the step of a frequency as the specification lists it
StepOf(d, f) ==
    CASE f = "Diaria"     -> AddDays(d, 1)
      [] f = "Semanal"    -> AddDays(d, 7)
      [] f = "Quincenal"  -> AddDays(d, 15)
      [] f = "Mensual"    -> AddMonths(d, 1)
      [] f = "Bimensual"  -> AddMonths(d, 2)
      [] f = "Trimestral" -> AddMonths(d, 3)
      [] f = "Semestral"  -> AddMonths(d, 6)
      [] f = "Anual"      -> AddMonths(d, 12)

\* C1: generating with horizon 3 for an active monthly obligation of
\* 100 USD whose cursor is 2024-01-01, today being 2024-01-15, creates
\* exactly the instances of 2024-02-01, 2024-03-01 and 2024-04-01 and
\* sets the cursor to 2024-02-01.
C1_EndToEndScenario ==
    [][(/\ GenerateReturns
        /\ today = <<2024, 1, 15>>
        /\ request.months = 3
        /\ recurring_expenses.frequency = "Mensual"
        /\ recurring_expenses.amount = 100
        /\ recurring_expenses.currency = "USD"
        /\ recurring_expenses.next_payment = <<2024, 1, 1>>)
       => (/\ DueDates(resp'.data) = <<<<2024, 2, 1>>, <<2024, 3, 1>>, <<2024, 4, 1>>>>
           /\ accrued_expenses' = accrued_expenses \o resp'.data
           /\ recurring_expenses'.next_payment = <<2024, 2, 1>>)]_vars

\* C2: a generate call with horizon N on an active obligation whose
\* cursor is before today creates exactly N instances (skipped past
\* steps consume none of the N).
C2_SkipsConsumeNoCount ==
    [][(GenerateReturns /\ DateLT(recurring_expenses.next_payment, today))
       => (/\ Len(resp'.data) = request.months
           /\ accrued_expenses' = accrued_expenses \o resp'.data)]_vars

\* C3: for every frequency, a generate call with horizon N on an active
\* obligation whose cursor is today or later creates exactly N instances,
\* the first dated at the cursor, each next one one frequency step after
\* the previous, all with the template's amount and currency.
C3_FutureCursorExactlyN ==
    [][(GenerateReturns /\ ~DateLT(recurring_expenses.next_payment, today))
       => (/\ Len(resp'.data) = request.months
           /\ accrued_expenses' = accrued_expenses \o resp'.data
           /\ resp'.data # <<>> =>
                 resp'.data[1].due_date = recurring_expenses.next_payment
           /\ \A k \in 1..(Len(resp'.data) - 1) :
                 resp'.data[k + 1].due_date =
                    StepOf(resp'.data[k].due_date, recurring_expenses.frequency)
           /\ \A k \in DOMAIN resp'.data :
                 /\ resp'.data[k].amount = recurring_expenses.amount
                 /\ resp'.data[k].currency = recurring_expenses.currency)]_vars

\* C3 witness: a call with the full horizon returned its instances from
\* a cursor that is not in the past
C3_Witness ==
    /\ resp.op = "generate" /\ resp.code = 201
    /\ request.months = 3
    /\ Len(resp.data) = 3
    /\ ~DateLT(resp.data[1].due_date, today)
    /\ accrued_expenses = resp.data

\* C4: for every frequency, cursor and horizon a generate call
\* terminates (the loop counter never passes the horizon and the handler
\* returns), and no instance it creates is dated before today.
C4_TerminatesNoBacklog ==
    /\ [](\A k \in DOMAIN generated_expenses :
             ~DateLT(generated_expenses[k].due_date, today))
    /\ [](\A k \in DOMAIN accrued_expenses :
             ~DateLT(accrued_expenses[k].due_date, today))
    /\ [](pc = "loop" => i <= request.months)
    /\ (pc = "loop") ~> (pc = "idle")

\* C4 witness: a call that started from a cursor in the past has
\* returned with instances
C4_Witness ==
    /\ resp.op = "generate" /\ resp.code = 201
    /\ resp.data # <<>>
    /\ DateLT(recurring_expenses.next_payment, today)
    /\ accrued_expenses = resp.data

\* C5: after every generate call that creates at least one instance the
\* cursor equals the due_date of the first instance the call created.
C5_CursorIsFirstCreated ==
    [][(GenerateReturns /\ resp'.data # <<>>)
       => recurring_expenses'.next_payment = resp'.data[1].due_date]_vars

\* C6: a generate request on a paused obligation fails with a client
\* error, creates no instance and leaves the cursor (the whole row)
\* unchanged.
C6_PausedRefused ==
    [][\A m \in 0..MaxMonths :
          (/\ recurring_expenses # NoRow
           /\ recurring_expenses.status = "Pausado"
           /\ GenerateBegin(recurring_expenses.id, m))
          => (/\ resp'.op = "generate" /\ resp'.code = 400
              /\ pc' = "idle"
              /\ generated_expenses' = <<>>
              /\ accrued_expenses' = accrued_expenses
              /\ recurring_expenses' = recurring_expenses)]_vars

\* C6 witness: a generate request was refused on a paused obligation
C6_Witness ==
    /\ recurring_expenses # NoRow
    /\ recurring_expenses.status = "Pausado"
    /\ resp = Response("generate", 400, <<>>, "inactive")

\* C7: in every reachable state next_payment >= start_date, and no
\* operation on a stored obligation moves next_payment to an earlier date.
C7_CursorNeverRegresses ==
    /\ [](recurring_expenses # NoRow =>
             ~DateLT(recurring_expenses.next_payment,
                     recurring_expenses.start_date))
    /\ [][(recurring_expenses # NoRow /\ recurring_expenses' # NoRow)
          => ~DateLT(recurring_expenses'.next_payment,
                     recurring_expenses.next_payment)]_vars

\* C8: a generate call that fails while building or committing persists
\* no instance and leaves the obligation unchanged; nothing is persisted
\* before the commit; a call that returns 201 persists exactly the
\* instances it returns, together with its cursor assignment.
C8_GenerationAtomic ==
    [][pc = "loop" =>
          /\ pc' = "loop" =>
                /\ accrued_expenses' = accrued_expenses
                /\ recurring_expenses' = recurring_expenses
          /\ (pc' = "idle" /\ resp'.code = 400 /\ resp'.stage \in {"build", "commit"}) =>
                /\ accrued_expenses' = accrued_expenses
                /\ recurring_expenses' = recurring_expenses
          /\ (pc' = "idle" /\ resp'.code = 201) =>
                /\ resp'.data = generated_expenses
                /\ accrued_expenses' = accrued_expenses \o generated_expenses
                /\ next_payment_date # NoDate =>
                      recurring_expenses'.next_payment = next_payment_date]_vars

\* C8 witness: a call with horizon 3 on an active obligation whose cursor
\* is not in the past failed at its commit, after building three
\* instances, and the table is still empty
C8_Witness ==
    /\ resp = Response("generate", 400, <<>>, "commit")
    /\ request.months = 3
    /\ recurring_expenses.status = "Activo"
    /\ ~DateLT(recurring_expenses.next_payment, today)
    /\ accrued_expenses = <<>>

\* C9: each generation endpoint answers a request whose id matches no
\* stored entity with 404 and creates nothing.
C9_UnknownIdIs404 ==
    [][/\ \A id \in RequestIds, m \in 0..MaxMonths :
             (/\ recurring_expenses = NoRow \/ recurring_expenses.id # id
              /\ GenerateBegin(id, m))
             => (resp'.code = 404 /\ accrued_expenses' = accrued_expenses)
       /\ \A id \in RequestIds, m \in 0..MaxMonths, ok \in BOOLEAN :
             (/\ projects = NoRow \/ projects.id # id
              /\ GeneratePayments(id, m, ok))
             => (resp'.code = 404 /\ payments' = payments)]_vars

(* ======================== payment-plan expander ======================== *)
\* the stored plan of the project satisfies the plan-type validation table
PlanIsValid ==
    /\ projects.payment_plan # NoPlan
    /\ validate_plan_fields(projects.payment_plan)

\* C10: POST /payments/generate creates payments only when the project
\* has a plan that satisfies the validation table; with a missing plan or
\* a plan lacking a field its type requires it answers 400 and persists
\* no payment.
C10_GenerateValidatesPlan ==
    [][\A m \in 0..MaxMonths, ok \in BOOLEAN :
          (/\ projects # NoRow
           /\ ~PlanIsValid
           /\ GeneratePayments(projects.id, m, ok))
          => (resp'.code = 400 /\ payments' = payments)]_vars

\* the payments of one leg in a response or in the table
OfType(rows, type) ==
    LET Is(p) == p.type = type IN SelectSeq(rows, Is)

\* a generate call on the stored project returns 201 on this step
GeneratePaymentsReturns ==
    /\ projects # NoRow
    /\ \E m \in 0..MaxMonths, ok \in BOOLEAN : GeneratePayments(projects.id, m, ok)
    /\ resp'.code = 201

\* C11: for a plan of type one-time fee, fee in installments or hybrid
\* with an implementation total, a successful generate creates exactly
\* max(1, installments) implementation payments; payment k (1-based) is
\* dated project.start_date + (k - 1) calendar months, has
\* installment_number k and the amount total / installments to the nearest
\* cent; 1200.00 in 1 installment is one payment of 1200.00 at the start,
\* in 3 installments three payments of 400.00.
C11_ImplementationInstallments ==
    [][(/\ GeneratePaymentsReturns
        /\ projects.payment_plan.type \in {"Fee unico", "Fee por cuotas", "Mixto"}
        /\ projects.payment_plan.implementation_fee_total # 0)
       => LET plan == projects.payment_plan
              n == Max(1, plan.implementation_fee_installments)
              impl == OfType(resp'.data, "Implementacion")
          IN /\ Len(impl) = n
             /\ OfType(payments', "Implementacion")
                   = OfType(payments, "Implementacion") \o impl
             /\ \A k \in 1..n :
                   /\ impl[k].date = AddMonths(projects.start_date, k - 1)
                   /\ impl[k].installment_number = k
                   /\ impl[k].currency = plan.implementation_fee_currency
                   /\ 2 * impl[k].amount * n - 2 * plan.implementation_fee_total <= n
                   /\ 2 * plan.implementation_fee_total - 2 * impl[k].amount * n <= n
             /\ (plan.implementation_fee_total = 120000 /\ n = 1) =>
                   (impl[1].amount = 120000 /\ impl[1].date = projects.start_date)
             /\ (plan.implementation_fee_total = 120000 /\ n = 3) =>
                   \A k \in 1..3 : impl[k].amount = 40000]_vars

\* three installments of a start on the 31st have been persisted: the
\* second is clamped to the end of February
C11_Witness ==
    /\ resp.op = "generate_payments" /\ resp.code = 201
    /\ projects # NoRow
    /\ projects.payment_plan.type = "Fee por cuotas"
    /\ projects.payment_plan.implementation_fee_total = 100000
    /\ Len(payments) = 3
    /\ payments[1].amount = 33333
    /\ payments[2].date = <<2024, 2, 29>>
    /\ payments[3].date = <<2024, 3, 31>>

\* the interval of a frequency in quarter months, as the specification
\* lists it (weekly 0.25 ... annual 12)
IntervalOf(f) ==
    CASE f = "Semanal"    -> 1
      [] f = "Quincenal"  -> 2
      [] f = "Mensual"    -> 4
      [] f = "Bimensual"  -> 8
      [] f = "Trimestral" -> 12
      [] f = "Semestral"  -> 24
      [] f = "Anual"      -> 48

\* rec is the schedule of horizon H from the date start: floor(H / interval)
\* payments, payment k (1-based) dated start + floor((k - 1) * interval)
\* months and numbered k
IsScheduleFrom(rec, H, f, start) ==
    /\ Len(rec) = (H * 4) \div IntervalOf(f)
    /\ \A k \in DOMAIN rec :
          /\ rec[k].date = AddMonths(start, ((k - 1) * IntervalOf(f)) \div 4)
          /\ rec[k].installment_number = k

\* project.start_date shifted forward by floor(grace_periods * interval)
\* months
GraceShifted(project) ==
    AddMonths(project.start_date,
              (project.payment_plan.recurring_fee_grace_periods
               * IntervalOf(project.payment_plan.recurring_fee_frequency)) \div 4)

\* C12 as stated: for a subscription or hybrid plan a successful generate
\* with horizon H creates exactly floor(H / interval) recurring payments,
\* payment i (0-based) dated recurring start + floor(i * interval) months
\* and numbered i + 1, the recurring start being project.start_date
\* shifted forward by grace_periods * interval months.
C12_ScheduleFromShiftedStart ==
    [][\A m \in 0..MaxMonths, ok \in BOOLEAN :
          (/\ projects # NoRow
           /\ GeneratePayments(projects.id, m, ok)
           /\ resp'.code = 201
           /\ projects.payment_plan.type \in {"Suscripcion periodica", "Mixto"})
          => IsScheduleFrom(OfType(resp'.data, "Recurrente"), m,
                            projects.payment_plan.recurring_fee_frequency,
                            GraceShifted(projects))]_vars

\* C12: the same count, numbering and spacing, the recurring start being
\* project.start_date shifted forward by floor(grace_periods * interval)
\* months and then moved to day min(day_of_charge, 28) of its month; the
\* payments are appended to the table.
C12_ScheduleFromChargeDay ==
    [][\A m \in 0..MaxMonths, ok \in BOOLEAN :
          (/\ projects # NoRow
           /\ GeneratePayments(projects.id, m, ok)
           /\ resp'.code = 201
           /\ projects.payment_plan.type \in {"Suscripcion periodica", "Mixto"})
          => /\ IsScheduleFrom(OfType(resp'.data, "Recurrente"), m,
                               projects.payment_plan.recurring_fee_frequency,
                               <<GraceShifted(projects)[1], GraceShifted(projects)[2],
                                 Min(projects.payment_plan.recurring_fee_day_of_charge, 28)>>)
             /\ OfType(payments', "Recurrente")
                   = OfType(payments, "Recurrente") \o OfType(resp'.data, "Recurrente")]_vars

\* a monthly subscription with one grace period, started on January 31st
\* and charged on the 15th, has been expanded over three months
C12_Witness ==
    /\ resp.op = "generate_payments" /\ resp.code = 201
    /\ projects # NoRow
    /\ projects.start_date = <<2024, 1, 31>>
    /\ projects.payment_plan.type = "Suscripcion periodica"
    /\ projects.payment_plan.recurring_fee_frequency = "Mensual"
    /\ projects.payment_plan.recurring_fee_grace_periods = 1
    /\ Len(payments) = 3
    /\ payments[1].date = <<2024, 2, 15>>
    /\ payments[3].date = <<2024, 4, 15>>

\* C13: in the recurring leg of a successful generate, occurrence i
\* (0-based) has amount recurring_fee_amount * (1 - discount_percentage /
\* 100) to the nearest cent when i < discount_periods and exactly
\* recurring_fee_amount otherwise; fee 500.00 with 2 periods at 10% gives
\* 450.00 for the first two occurrences and 500.00 for the later ones.
C13_DiscountOnFirstPeriods ==
    [][(/\ GeneratePaymentsReturns
        /\ projects.payment_plan.type \in {"Suscripcion periodica", "Mixto"})
       => LET plan == projects.payment_plan
              rec == OfType(resp'.data, "Recurrente")
          IN \A k \in DOMAIN rec :
                /\ k - 1 < plan.recurring_fee_discount_periods =>
                      /\ 2 * (100 * rec[k].amount
                              - plan.recurring_fee_amount
                                * (100 - plan.recurring_fee_discount_percentage)) <= 100
                      /\ 2 * (plan.recurring_fee_amount
                                * (100 - plan.recurring_fee_discount_percentage)
                              - 100 * rec[k].amount) <= 100
                /\ k - 1 >= plan.recurring_fee_discount_periods =>
                      rec[k].amount = plan.recurring_fee_amount
                /\ (/\ plan.recurring_fee_amount = 50000
                    /\ plan.recurring_fee_discount_periods = 2
                    /\ plan.recurring_fee_discount_percentage = 10) =>
                      rec[k].amount = IF k <= 2 THEN 45000 ELSE 50000]_vars

\* three occurrences of a discounted subscription have been persisted:
\* two at the reduced amount, the third at the full fee
C13_Witness ==
    /\ resp.op = "generate_payments" /\ resp.code = 201
    /\ projects # NoRow
    /\ projects.payment_plan.type = "Suscripcion periodica"
    /\ projects.payment_plan.recurring_fee_discount_periods = 2
    /\ Len(payments) = 3
    /\ payments[1].amount = 45000
    /\ payments[2].amount = 45000
    /\ payments[3].amount = 50000

\* a field that the validation table of the specification requires for
\* the type of the plan is missing
RequiredFieldMissing(plan) ==
    \/ /\ plan.type \in {"Fee unico", "Fee por cuotas", "Mixto"}
       /\ \/ plan.implementation_fee_total = 0
          \/ plan.implementation_fee_currency = "None"
    \/ /\ plan.type \in {"Fee por cuotas", "Mixto"}
       /\ plan.implementation_fee_installments < 1
    \/ /\ plan.type \in {"Suscripcion periodica", "Mixto"}
       /\ \/ plan.recurring_fee_amount = 0
          \/ plan.recurring_fee_currency = "None"
          \/ plan.recurring_fee_frequency = "None"
          \/ plan.recurring_fee_day_of_charge = 0

\* C19: creating a project together with a payment plan that misses a
\* field required by its plan type returns a client error and persists
\* neither the project nor the plan; with a complete plan both are
\* persisted together.
C19_ProjectAndPlanAtomic ==
    [][\A sd \in ProjectDates, plan \in PlanBodies :
          CreateProject(sd, plan) =>
             IF RequiredFieldMissing(plan)
             THEN /\ resp'.code \in 400..499
                  /\ projects' = NoRow
             ELSE /\ resp'.code = 201
                  /\ projects' # NoRow
                  /\ projects'.payment_plan = plan]_vars

\* a create request with an incomplete plan has been refused and the
\* projects table is still empty
C19_Witness ==
    /\ resp.op = "create_project"
    /\ resp.code = 400
    /\ resp.stage = "validation"
    /\ projects = NoRow

\* C20: generation is not idempotent. A successful generate with a
\* horizon of at least one period on an active obligation whose cursor c
\* is today or later creates its first instance at c and leaves the
\* cursor at c; so a second call right after the first creates again an
\* instance due on c, the table then holds two instances due on c, and
\* the cursor after both calls is c.
C20_GenerateNotIdempotent ==
    /\ [][(/\ GenerateReturns
            /\ request.months >= 1
            /\ ~DateLT(recurring_expenses.next_payment, today))
           => /\ resp'.data[1].due_date = recurring_expenses.next_payment
              /\ recurring_expenses'.next_payment = recurring_expenses.next_payment
              /\ accrued_expenses' = accrued_expenses \o resp'.data]_vars
    /\ [][\A id \in RequestIds, m \in 1..MaxMonths :
             (/\ resp.op = "generate" /\ resp.code = 201 /\ resp.data # <<>>
              /\ ~DateLT(recurring_expenses.next_payment, today)
              /\ GenerateBegin(id, m)
              /\ pc' = "loop")
             => /\ resp.data[1].due_date = recurring_expenses.next_payment
                /\ current_date' = resp.data[1].due_date]_vars

\* the second of two successive calls has returned: both created an
\* instance due on the cursor
C20_Witness ==
    /\ resp.op = "generate" /\ resp.code = 201
    /\ Len(resp.data) >= 1
    /\ Len(accrued_expenses) > Len(resp.data)
    /\ accrued_expenses[1].due_date = recurring_expenses.next_payment
    /\ resp.data[1].due_date = recurring_expenses.next_payment
    /\ accrued_expenses[1] = resp.data[1]

(* ======================== currency conversion ========================== *)
\* the live source fails during the call, or no credential is configured
LookupFails(api_key, outcome) ==
    \/ ~api_key
    \/ outcome \in {"timeout", "unreachable", "http_error", "not_success"}

\* the fixed fallback table: 4000 for USD to COP, 0.00025 for COP to USD
FixedFallback(base, target) ==
    IF base = "USD" /\ target = "COP" THEN [num |-> 4000, den |-> 1]
    ELSE [num |-> 1, den |-> 4000]

\* C16: no call of get_exchange_rate or convert_currency raises; when
\* the pair is looked up (it is not in the cache) while the live source
\* is unreachable, times out or answers without success, or while no
\* credential is configured, get_exchange_rate returns the fixed fallback
\* rate of the pair and convert_currency returns amount times that rate.
C16_LookupFailureFallsBack ==
    [][\A b \in CurrencyCodes, t \in CurrencyCodes,
          api_key \in BOOLEAN, outcome \in SourceOutcomes :
          /\ GetExchangeRate(b, t, api_key, outcome) =>
                /\ resp'.stage # "raised"
                /\ (b # t /\ rate_cache[<<b, t>>] = NoRate
                    /\ LookupFails(api_key, outcome))
                   => resp'.data = FixedFallback(b, t)
          /\ \A amount \in ConvertAmounts :
                ConvertCurrency(amount, b, t, api_key, outcome) =>
                   /\ resp'.stage # "raised"
                   /\ (b # t /\ rate_cache[<<b, t>>] = NoRate
                       /\ LookupFails(api_key, outcome))
                      => /\ resp'.data.num = amount * FixedFallback(b, t).num
                         /\ resp'.data.den = FixedFallback(b, t).den]_vars

\* a conversion of 100 USD cents has been answered with the fallback
\* rate after the lookup failed
C16_Witness ==
    /\ resp.op = "convert_currency"
    /\ resp.stage = "fallback"
    /\ resp.data = [num |-> 400000, den |-> 1]
    /\ rate_cache[<<"USD", "COP">>] = [num |-> 4000, den |-> 1]

\* C17: convert_currency(amount, c, c) returns amount unchanged for
\* every currency code c and every amount, zero and negative included,
\* without a rate lookup: the cache is left as it was and the source is
\* not asked.
C17_SameCurrencyIdentity ==
    [][\A amount \in ConvertAmounts, c \in CurrencyCodes,
          api_key \in BOOLEAN, outcome \in SourceOutcomes :
          ConvertCurrency(amount, c, c, api_key, outcome) =>
             /\ resp'.data = [num |-> amount, den |-> 1]
             /\ resp'.stage = "identity"
             /\ rate_cache' = rate_cache]_vars

\* a negative amount has been converted from COP to COP
C17_Witness ==
    /\ resp.op = "convert_currency"
    /\ resp.stage = "identity"
    /\ resp.data = [num |-> -250, den |-> 1]
    /\ rate_cache[<<"COP", "COP">>] = NoRate

(* ============================== reports ================================ *)
\* the total of the selected rows of one currency, before bucketing
GrandTotal(rows, cur, start_date) ==
    LET f[k \in 0..Len(rows)] ==
            IF k = 0 THEN 0
            ELSE f[k - 1]
                 + (IF rows[k].currency = cur /\ ~DateLT(rows[k].date, start_date)
                    THEN rows[k].amount ELSE 0)
    IN f[Len(rows)]

\* target + source * rate, for totals in cents
Converted(target_total, source_total, rate) ==
    [num |-> target_total * rate.den + source_total * rate.num, den |-> rate.den]

\* the sum of one field over the buckets of a report
BucketSum(entries, field, rate) ==
    LET f[k \in 0..Len(entries)] ==
            IF k = 0 THEN [num |-> 0, den |-> rate.den]
            ELSE [num |-> f[k - 1].num + entries[k][field].num, den |-> rate.den]
    IN f[Len(entries)]

\* C14: in the cash-flow report with a target currency, each summary
\* total (income, expenses, net) equals the sum of the per-bucket values
\* after conversion, which equals the conversion of the per-currency
\* grand totals of the selected rows taken before bucketing, at the one
\* rate the request used (the rate the cache holds afterwards).
C14_ConversionDistributes ==
    (resp.op = "cash_flow" /\ resp.code = 200 /\ args.currency \in CurrencyCodes)
    => LET c == args.currency
           s == IF c = "COP" THEN "USD" ELSE "COP"
           rate == rate_cache[<<s, c>>]
           start == AddMonths(today, 0 - args.months)
           entries == resp.data.data
           summary == resp.data.summary
           inc_c == GrandTotal(incomes, c, start)
           inc_s == GrandTotal(incomes, s, start)
           exp_c == GrandTotal(expenses, c, start)
           exp_s == GrandTotal(expenses, s, start)
       IN /\ rate # NoRate
          /\ \A k \in DOMAIN entries :
                /\ entries[k].income.den = rate.den
                /\ entries[k].expenses.den = rate.den
                /\ entries[k].net.den = rate.den
          /\ summary.total_income = BucketSum(entries, "income", rate)
          /\ summary.total_expenses = BucketSum(entries, "expenses", rate)
          /\ summary.total_net = BucketSum(entries, "net", rate)
          /\ summary.total_income = Converted(inc_c, inc_s, rate)
          /\ summary.total_expenses = Converted(exp_c, exp_s, rate)
          /\ summary.total_net = Converted(inc_c - exp_c, inc_s - exp_s, rate)

\* a report in USD over incomes of 1.00 USD in November and 2500.00 COP
\* in December: two buckets, total 1.00 + 2500.00 / 4000 USD
C14_Witness ==
    /\ resp.op = "cash_flow" /\ resp.code = 200 /\ args.currency = "USD"
    /\ args.period = "month"
    /\ Len(incomes) = 2
    /\ Len(resp.data.data) = 2
    /\ resp.data.data[1].income = [num |-> 400000, den |-> 4000]
    /\ resp.data.data[2].income = [num |-> 250000, den |-> 4000]
    /\ resp.data.summary.total_income = [num |-> 650000, den |-> 4000]

\* the sum of the net values of the first k buckets, for a report in one
\* currency at the given rate
NetUpTo(entries, k, rate) ==
    LET f[j \in 0..k] == IF j = 0 THEN 0 ELSE f[j - 1] + entries[j].net.num
    IN [num |-> f[k], den |-> rate.den]

\* the same per currency, for a report without a target currency
NetUpToIn(entries, k, c) ==
    LET f[j \in 0..k] == IF j = 0 THEN 0 ELSE f[j - 1] + entries[j].net[c]
    IN f[k]

\* C15: in the financial projection the buckets are in chronological
\* order, the running_balance of the K-th bucket is the sum of the net
\* values of buckets 1..K, for every K, and final_balance is the sum of
\* the net values of all buckets.
C15_RunningBalanceIsPrefixSum ==
    (resp.op = "financial_projection" /\ resp.code = 200)
    => LET entries == resp.data.data
           final == resp.data.summary.final_balance
       IN /\ Len(entries) = args.months
          /\ \A k \in 1..(Len(entries) - 1) :
                LabelLT(entries[k].month, entries[k + 1].month)
          /\ IF args.currency \in CurrencyCodes
             THEN LET s == IF args.currency = "COP" THEN "USD" ELSE "COP"
                      rate == rate_cache[<<s, args.currency>>]
                  IN /\ \A k \in DOMAIN entries :
                           /\ entries[k].net.den = rate.den
                           /\ entries[k].running_balance = NetUpTo(entries, k, rate)
                     /\ final[args.currency] = NetUpTo(entries, Len(entries), rate)
             ELSE /\ \A k \in DOMAIN entries : \A c \in CurrencyCodes :
                        entries[k].running_balance[c] = NetUpToIn(entries, k, c)
                  /\ \A c \in CurrencyCodes :
                        final[c] = NetUpToIn(entries, Len(entries), c)

\* a projection in COP over three months with 1.00 USD due in January and
\* 2500.00 COP due in February: the balance after February is their sum
C15_Witness ==
    /\ resp.op = "financial_projection" /\ resp.code = 200
    /\ args.currency = "COP" /\ args.months = 3
    /\ resp.data.data[1].net = [num |-> 400000, den |-> 1]
    /\ resp.data.data[2].net = [num |-> 250000, den |-> 1]
    /\ resp.data.data[2].running_balance = [num |-> 650000, den |-> 1]
    /\ resp.data.summary.final_balance["COP"] = [num |-> 650000, den |-> 1]

(* ============================ authentication =========================== *)
\* C18: after a successful logout made with an access token, every later
\* request that presents that token to a protected endpoint is rejected
\* with 401, whatever happens in between: a successful logout puts the
\* token's jti on the blacklist, no step takes a jti off the blacklist,
\* and a protected request with a token whose jti is on the blacklist is
\* answered 401.
C18_RevokedTokenRejected ==
    [][/\ \A token \in tokens, expired \in BOOLEAN :
             (Logout(token, expired) /\ resp'.code = 200)
                => token.jti \in blacklisted_tokens'
       /\ blacklisted_tokens \subseteq blacklisted_tokens'
       /\ \A token \in tokens, expired \in BOOLEAN :
             (token.jti \in blacklisted_tokens /\ ProtectedRequest(token, expired))
                => resp'.code = 401]_vars

\* a token that was logged out has been presented, inside its lifetime, to
\* the protected endpoint after a later login, and was refused
C18_Witness ==
    /\ resp.op = "protected" /\ resp.code = 401 /\ resp.stage = "revoked"
    /\ resp.data \in blacklisted_tokens
    /\ Cardinality(tokens) = 4

(* ===================== payment-plan expander, continued ================ *)
\* C21: every recurring payment of a successful generate call has the
\* day-of-month of the configured day-of-charge clamped into [1, 28].
C21_ChargeDayClamped ==
    [][GeneratePaymentsReturns
       => LET rec == OfType(resp'.data, "Recurrente")
              day == projects.payment_plan.recurring_fee_day_of_charge
          IN \A k \in DOMAIN rec : rec[k].date[3] = Max(1, Min(day, 28))]_vars

(* ============================ overdue sweep ============================ *)
\* C22: the overdue sweep changes nothing of an instance but its status,
\* changes a status only from pending to overdue and only when the
\* due_date is before today (paid instances, overdue instances and
\* instances due today or later stay as they are), and after a sweep that
\* answered 200 no instance due before today is still pending.
C22_SweepOnlyPendingPastDue ==
    [][\A currency \in {"COP", "USD", "none"}, outcome \in {"success", "timeout"},
          commit_ok \in BOOLEAN :
          OverdueAccruedExpenses(currency, TRUE, outcome, commit_ok)
          => /\ Len(accrued_expenses') = Len(accrued_expenses)
             /\ \A k \in DOMAIN accrued_expenses :
                   /\ accrued_expenses'[k]
                         = [accrued_expenses[k] EXCEPT
                               !.status = accrued_expenses'[k].status]
                   /\ accrued_expenses'[k].status # accrued_expenses[k].status
                         => /\ accrued_expenses[k].status = "pendiente"
                            /\ accrued_expenses'[k].status = "vencido"
                            /\ DateLT(accrued_expenses[k].due_date, today)
             /\ resp'.code = 200
                   => \A k \in DOMAIN accrued_expenses' :
                         DateLT(accrued_expenses'[k].due_date, today)
                            => accrued_expenses'[k].status # "pendiente"]_vars

\* a sweep has turned one instance overdue and left a paid instance of
\* last year and a pending instance due today as they were
C22_Witness ==
    /\ resp.op = "overdue" /\ resp.code = 200
    /\ Len(resp.data.data) = 1
    /\ resp.data.data[1].status = "vencido"
    /\ Len(accrued_expenses) = 3
    /\ accrued_expenses[1].status = "pagado"
    /\ accrued_expenses[1].due_date = <<2023, 12, 31>>
    /\ accrued_expenses[2].status = "vencido"
    /\ accrued_expenses[3].status = "pendiente"
    /\ accrued_expenses[3].due_date = Today

(* ============================== rate cache ============================= *)
\* the value the rate source gives for a pair at the time of a call
SourceValue(b, t, api_key, outcome) ==
    IF api_key /\ outcome = "success"
    THEN (IF b = "USD" THEN [num |-> 4100, den |-> 1] ELSE [num |-> 3, den |-> 12500])
    ELSE FixedFallback(b, t)

C24_RacingCallersSameRate ==
    /\ \A t \in Callers : lookups[t].pc # "raised"
    /\ \A t \in Callers :
          lookups[t].pc = "done" => rate_cache[lookups[t].rate_key] # NoRate
    /\ \A t1 \in Callers, t2 \in Callers :
          (/\ lookups[t1].pc = "done" /\ lookups[t2].pc = "done"
           /\ lookups[t1].rate_key = lookups[t2].rate_key
           /\ lookups[t1].how # "cache" /\ lookups[t2].how # "cache")
          => lookups[t1].rate = lookups[t2].rate

(* =========================== horizon of a call ========================= *)
\* a cap on the horizon below the largest horizon a request carries
HorizonCap == MaxMonths - 1

\* C25: both generators cap the requested horizon at a fixed maximum: no
\* call creates more instances than a horizon of that maximum creates,
\* however large the requested horizon is.
C25_HorizonCapped ==
    [][/\ GenerateReturns => Len(resp'.data) <= HorizonCap
       /\ (GeneratePaymentsReturns /\ HasRecurringLeg(projects.payment_plan))
             => Len(OfType(resp'.data, "Recurrente"))
                   <= (HorizonCap * 4)
                         \div frequency_months(projects.payment_plan.recurring_fee_frequency)]_vars

(* ==================== the payments of a project ======================== *)
\* C26: after any sequence of generate calls the table holds at most one
\* payment per (type, installment_number) of the project.
C26_OnePaymentPerInstallment ==
    \A j \in DOMAIN payments, k \in DOMAIN payments :
       (/\ payments[j].project_id = payments[k].project_id
        /\ payments[j].type = payments[k].type
        /\ payments[j].installment_number = payments[k].installment_number)
       => j = k

\* the sum of the amounts of a sequence of payments, in cents
RECURSIVE SumAmounts(_)
SumAmounts(rows) ==
    IF rows = <<>> THEN 0 ELSE Head(rows).amount + SumAmounts(Tail(rows))

\* C27: the amounts of the implementation payments one generate call
\* creates add up to exactly implementation_fee_total.
C27_ImplementationSumsToTotal ==
    [][GeneratePaymentsReturns
       => LET impl == OfType(resp'.data, "Implementacion")
          IN impl # <<>>
                => SumAmounts(impl) = projects.payment_plan.implementation_fee_total]_vars

\* C28: every payment a generate call creates is dated on or after the
\* start_date of the project.
C28_NoPaymentBeforeStart ==
    [][GeneratePaymentsReturns
       => \A k \in DOMAIN resp'.data :
             ~DateLT(resp'.data[k].date, projects.start_date)]_vars

\* C29: the recurring payments one generate call creates have strictly
\* increasing dates, no two on the same day, for every frequency.
C29_RecurringDatesIncrease ==
    [][GeneratePaymentsReturns
       => LET rec == OfType(resp'.data, "Recurrente")
          IN \A k \in 1..(Len(rec) - 1) : DateLT(rec[k].date, rec[k + 1].date)]_vars

(* ================== coverage of the projection window ================== *)
\* the number of entries of the answer whose details list the row
BucketsOf(row, kind) ==
    Cardinality({k \in DOMAIN resp.data.data :
                    \E j \in DOMAIN resp.data.data[k].details[kind] :
                       resp.data.data[k].details[kind][j] = row})

\* C30: in the financial projection every pending payment and every
\* pending accrued expense selected for the window [today, today + months]
\* is counted in exactly one monthly bucket, so the summary totals equal
\* the sums over all selected records.
C30_WindowFullyBucketed ==
    (resp.op = "financial_projection" /\ resp.code = 200)
    => LET pay == UpcomingPayments(payments, today, AddMonths(today, args.months))
           exp == UpcomingExpenses(accrued_expenses, today, AddMonths(today, args.months))
       IN /\ \A k \in DOMAIN pay : BucketsOf(pay[k], "payments") = 1
          /\ \A k \in DOMAIN exp : BucketsOf(exp[k], "expenses") = 1
          /\ resp.stage = "per_currency"
                => \A c \in CurrencyCodes :
                      /\ resp.data.summary.total_projected_income[c] = AmountOf(pay, c)
                      /\ resp.data.summary.total_projected_expenses[c] = AmountOf(exp, c)

====
